---- MODULE Spec2Model ----
(***************************************************************************)
(* A model of the helper functions of ben_python_utils (hjben/python-utils). *)
(*                                                                         *)
(* Every function of the library is a synchronous call.  A call is         *)
(* modelled as a small state machine: the arguments are chosen by Init,    *)
(* an action runs the function body and records how the call ended         *)
(* (a returned value or a raised exception).  Functions that mutate an     *)
(* argument in a loop (convert_str_column_to_datetime) take one action per *)
(* loop iteration, so that the state in which an exception leaves the      *)
(* argument is visible.                                                    *)
(*                                                                         *)
(* Python values are modelled as follows.                                  *)
(*   - a str is a sequence of one-character strings;                       *)
(*   - a list is a sequence; a dict is a sequence of <<key, value>> pairs  *)
(*     with distinct keys, in insertion order;                             *)
(*   - where only the class of an object matters (the type checks), the    *)
(*     object is represented by the name of its class.                     *)
(***************************************************************************)
EXTENDS Integers, Sequences, FiniteSets, TLC

VARIABLES
    fn,      \* the function that is called
    args,    \* its arguments, as passed by the caller
    pc,      \* position of the call: "call", a loop label, or "done"
    ret,     \* how the call ended: NoResult, Return(v) or Raise(exc, msg)
    stdout,  \* what the call has printed, one entry per print()
    df,      \* the caller's DataFrame object (mutated in place by the callee)
    col_i,   \* convert_str_column_to_datetime: 1-based position in the column loop
    fs,      \* the file system: a function from absolute paths to their entries
    events   \* what the call has done to its mapping and to the outside, in order

vars == <<fn, args, pc, ret, stdout, df, col_i, fs, events>>

(***************************************************************************)
(* Outcomes of a call.                                                     *)
(***************************************************************************)
NoResult == [kind |-> "none"]

Return(v) == [kind |-> "return", val |-> v]

Raise(exc, msg) == [kind |-> "raise", exc |-> exc, msg |-> msg]

Returned == pc = "done" /\ ret.kind = "return"

Raised == pc = "done" /\ ret.kind = "raise"

(***************************************************************************)
(* Generic helpers on sequences.                                           *)
(***************************************************************************)
\* all sequences over S of length 0..n
SeqsUpTo(S, n) == UNION {[1..k -> S] : k \in 0..n}

Range(s) == {s[k] : k \in 1..Len(s)}

\* list.count(x)
Count(s, x) == Cardinality({k \in 1..Len(s) : s[k] = x})

\* s[::-1]
Reverse(s) == [k \in 1..Len(s) |-> s[Len(s) + 1 - k]]

\* s without the element at 1-based position p
RemoveAt(s, p) == [k \in 1..(Len(s) - 1) |-> IF k < p THEN s[k] ELSE s[k + 1]]

\* no object is bound to the DataFrame variable in calls that take none
NoDf == [type |-> "NoneType"]

\* The file system of a call that touches no file.
NoFs == <<>>

(***************************************************************************)
(* get_split_index                                                         *)
(***************************************************************************)
\* bounds of the inputs
MaxDataLen == 9
MaxSplitN == 6

\* round(a / b) in place of int(a / b), for a >= 0 and b > 0
IntOfQuotient_Rounded(a, b) == (2 * a + b) \div (2 * b)

\* int(a / b): true division, then truncation toward zero
IntOfQuotient(a, b) ==
    IF a >= 0 THEN a \div b ELSE -((-a) \div b)

\* len(list(data.keys())) for a dict, len(data) otherwise
DataLen(data) == data.len

\* range(n) as a sequence
PyRange(n) == [k \in 1..(IF n > 0 THEN n ELSE 0) |-> k - 1]

\* [int(L * (i + 1) / split_n) for i in range(split_n - 1)], split_n an int
SplitIndexList(L, n) ==
    LET r == PyRange(n - 1)
    IN  [k \in 1..Len(r) |-> IntOfQuotient(L * (r[k] + 1), n)]

\* a float split_n truncated to an int instead of failing in range()
get_split_index_Coerced(data, split_n) ==
    IF split_n.type \in {"int", "bool", "float"}
    THEN Return(SplitIndexList(DataLen(data), split_n.val))
    ELSE Raise("TypeError", "unsupported operand or non-integer range")

\* basic.py: no check of split_n; "split_n - 1" and range() raise TypeError
\* for a str, None or float, and a bool counts as the int 0 or 1
get_split_index(data, split_n) ==
    IF split_n.type \in {"int", "bool"}
    THEN Return(SplitIndexList(DataLen(data), split_n.val))
    ELSE Raise("TypeError", "unsupported operand or non-integer range")

\* list_process.py, df_process.py: split_n is checked first
checked_get_split_index(data, split_n) ==
    IF split_n.type # "int"
    THEN Raise("TypeError", "Type of target directory name must be int")
    ELSE Return(SplitIndexList(DataLen(data), split_n.val))

SplitData == [type : {"list", "dict"}, len : 0..MaxDataLen]

SplitCounts ==
    [type : {"int"}, val : -1..MaxSplitN]
        \cup [type : {"bool"}, val : {0, 1}]
        \cup [type : {"float", "str"}, val : {2}]
        \cup [type : {"NoneType"}, val : {0}]

InitSplit ==
    /\ fn \in {"basic.get_split_index", "list_process.get_split_index",
              "df_process.get_split_index"}
    /\ args \in [data : SplitData, split_n : SplitCounts]
    /\ pc = "call"
    /\ ret = NoResult
    /\ stdout = <<>>
    /\ df = NoDf
    /\ col_i = 0
    /\ fs = NoFs
    /\ events = <<>>

CallBasicGetSplitIndex ==
    /\ pc = "call"
    /\ fn = "basic.get_split_index"
    /\ ret' = get_split_index(args.data, args.split_n)
    /\ pc' = "done"
    /\ UNCHANGED <<fs, events, fn, args, stdout, df, col_i>>

CallCheckedGetSplitIndex ==
    /\ pc = "call"
    /\ fn = "list_process.get_split_index"
    /\ ret' = checked_get_split_index(args.data, args.split_n)
    /\ pc' = "done"
    /\ UNCHANGED <<fs, events, fn, args, stdout, df, col_i>>

\* df_process.py holds the same checked function as list_process.py
CallDfProcessGetSplitIndex ==
    /\ pc = "call"
    /\ fn = "df_process.get_split_index"
    /\ ret' = checked_get_split_index(args.data, args.split_n)
    /\ pc' = "done"
    /\ UNCHANGED <<fs, events, fn, args, stdout, df, col_i>>

NextSplit ==
    \/ CallBasicGetSplitIndex
    \/ CallCheckedGetSplitIndex
    \/ CallDfProcessGetSplitIndex

SpecSplit == InitSplit /\ [][NextSplit]_vars

\* the sizes of the parts that the cut points c make of a collection of length L
PartSizes(c, L) ==
    LET cuts == <<0>> \o c \o <<L>>
    IN  [k \in 1..(Len(cuts) - 1) |-> cuts[k + 1] - cuts[k]]

\* q is floor(a / b), stated without division
IsFloorOf(q, a, b) == q * b <= a /\ a < (q + 1) * b

\* the call under way has an integer split count n >= 1
SplitCase == args.split_n.type = "int" /\ args.split_n.val >= 1

\* C5: for a collection of length L and an integer n >= 1, get_split_index
\* returns exactly n-1 cut points c_i = floor(L*(i+1)/n), i in 0..n-2, that are
\* non-decreasing, lie in [0, L], and cut the collection into n contiguous
\* parts whose sizes differ by at most 1.
C5_SplitIndexEven ==
    (pc = "done"
        /\ fn \in {"basic.get_split_index", "list_process.get_split_index",
                   "df_process.get_split_index"}
        /\ SplitCase) =>
        /\ ret.kind = "return"
        /\ LET c == ret.val
               L == args.data.len
               n == args.split_n.val
               sizes == PartSizes(c, L)
           IN  /\ Len(c) = n - 1
               /\ \A k \in 1..Len(c) : IsFloorOf(c[k], L * k, n)
               /\ \A k \in 1..Len(c) : 0 <= c[k] /\ c[k] <= L
               /\ \A k \in 1..(Len(c) - 1) : c[k] <= c[k + 1]
               /\ Len(sizes) = n
               /\ \A j, k \in 1..Len(sizes) :
                      sizes[j] >= 0 /\ sizes[j] - sizes[k] <= 1

\* a call that cut 7 elements in 3 parts has returned <<2, 4>>
C5_Witness ==
    /\ Returned
    /\ fn = "basic.get_split_index"
    /\ SplitCase
    /\ args.data.len = 7
    /\ args.split_n.val = 3
    /\ ret.val = <<2, 4>>

(***************************************************************************)
(* Classes of the checked values.  type(x) is the class of x; isinstance   *)
(* also accepts the classes it inherits from (bool is a subclass of int).  *)
(***************************************************************************)
Types == {"int", "bool", "str", "object"}

\* the classes a class inherits from, itself included (its __mro__)
Mro(cls) ==
    CASE cls = "bool" -> {"bool", "int", "object"}
      [] cls = "int" -> {"int", "object"}
      [] cls = "str" -> {"str", "object"}
      [] OTHER -> {"object"}

\* isinstance(x, T) for an object x of class cls
IsInstance(cls, T) == T \in Mro(cls)

(***************************************************************************)
(* dict helpers: a dict is a sequence of <<key, value>> pairs.             *)
(***************************************************************************)
\* list(d.keys())
Keys(d) == [k \in 1..Len(d) |-> d[k][1]]

\* key in d
HasKey(d, key) == \E k \in 1..Len(d) : d[k][1] = key

\* d[key], for a key of d
DictGet(d, key) == d[CHOOSE k \in 1..Len(d) : d[k][1] = key][2]

(***************************************************************************)
(* check_type_dict_value (basic.py): the soft check of a dict's values     *)
(***************************************************************************)
MaxDictLen == 2
MaxKeyListLen == 2

DictKeyNames == {"host", "port", "user"}

\* the "for key in target_key" loop: the first value whose class differs from
\* check_type prints a diagnostic and ends the call with False
RECURSIVE DictValueLoop(_, _, _)
DictValueLoop(check_dict, check_type, target_key) ==
    IF target_key = <<>>
    THEN [ret |-> Return(TRUE), printed |-> <<>>]
    ELSE LET key == Head(target_key)
         IN  IF ~HasKey(check_dict, key)
             THEN [ret |-> Raise("KeyError", key), printed |-> <<>>]
             ELSE IF DictGet(check_dict, key) # check_type
             THEN [ret |-> Return(FALSE),
                   printed |-> <<[expected |-> check_type,
                                  found |-> DictGet(check_dict, key)]>>]
             ELSE DictValueLoop(check_dict, check_type, Tail(target_key))

\* "return True" indented into the loop: only the first key is checked
check_type_dict_value_ReturnInLoop(check_dict, check_type, dict_keys) ==
    LET target_key ==
            IF dict_keys.kind = "none" THEN Keys(check_dict)
            ELSE IF dict_keys.kind = "key" THEN <<dict_keys.key>>
            ELSE dict_keys.keys
    IN  IF target_key = <<>>
        THEN [ret |-> Return(TRUE), printed |-> <<>>]
        ELSE DictValueLoop(check_dict, check_type, <<Head(target_key)>>)

check_type_dict_value(check_dict, check_type, dict_keys) ==
    LET target_key ==
            IF dict_keys.kind = "none" THEN Keys(check_dict)
            ELSE IF dict_keys.kind = "key" THEN <<dict_keys.key>>
            ELSE dict_keys.keys
    IN  DictValueLoop(check_dict, check_type, target_key)

\* dicts of up to MaxDictLen entries, in every insertion order
Dicts ==
    {d \in SeqsUpTo(DictKeyNames \X Types, MaxDictLen) :
        \A j, k \in 1..Len(d) : d[j][1] = d[k][1] => j = k}

\* the dict_keys argument: omitted (None), one key, or a list of keys
DictKeysArgs ==
    {[kind |-> "none"]}
        \cup {[kind |-> "key", key |-> k] : k \in DictKeyNames}
        \cup {[kind |-> "list", keys |-> ks] : ks \in SeqsUpTo(DictKeyNames, MaxKeyListLen)}

InitDictCheck ==
    /\ fn = "check_type_dict_value"
    /\ args \in [check_dict : Dicts, check_type : Types, dict_keys : DictKeysArgs]
    /\ pc = "call"
    /\ ret = NoResult
    /\ stdout = <<>>
    /\ df = NoDf
    /\ col_i = 0
    /\ fs = NoFs
    /\ events = <<>>

CallCheckTypeDictValue ==
    /\ pc = "call"
    /\ fn = "check_type_dict_value"
    /\ LET r == check_type_dict_value(args.check_dict, args.check_type, args.dict_keys)
       IN  /\ ret' = r.ret
           /\ stdout' = stdout \o r.printed
    /\ pc' = "done"
    /\ UNCHANGED <<fs, events, fn, args, df, col_i>>

NextDictCheck == CallCheckTypeDictValue

SpecDictCheck == InitDictCheck /\ [][NextDictCheck]_vars

\* a finished call of check_type_dict_value without dict_keys
DictCheckAllKeysDone ==
    pc = "done" /\ fn = "check_type_dict_value" /\ args.dict_keys.kind = "none"

\* C1 as stated: without dict_keys the call returns True iff every value of the
\* mapping is an instance of the type (isinstance), and False otherwise.
C1_TrueIffAllInstances ==
    DictCheckAllKeysDone =>
        ret = Return(\A k \in 1..Len(args.check_dict) :
                        IsInstance(args.check_dict[k][2], args.check_type))

\* C1 as amended: without dict_keys the call returns True iff the class of every
\* value of the mapping is exactly the type, and False otherwise; a value of a
\* subclass of the type (True for int) makes it False.
C1_TrueIffAllExactType ==
    DictCheckAllKeysDone =>
        ret = Return(\A k \in 1..Len(args.check_dict) :
                        args.check_dict[k][2] = args.check_type)

\* the check of {"host": 1, "port": True} against int has returned False
C1_Witness ==
    /\ DictCheckAllKeysDone
    /\ args.check_dict = << <<"host", "int">>, <<"port", "bool">> >>
    /\ args.check_type = "int"
    /\ ret = Return(FALSE)

(***************************************************************************)
(* check_type_list_element (basic.py)                                      *)
(***************************************************************************)
MaxListLen == 3
MaxIndexListLen == 2

\* the positions a caller may name: negative, valid and too large ones
IndexValues == -2..MaxListLen

\* check_list[idx] is defined: Python counts a negative idx from the end
ValidIndex(check_list, idx) == -Len(check_list) <= idx /\ idx < Len(check_list)

\* check_list[idx], for a valid idx (0-based, or negative from the end)
ListGet(check_list, idx) ==
    IF idx >= 0 THEN check_list[idx + 1] ELSE check_list[Len(check_list) + idx + 1]

\* the "for idx in idx_list" loop: check_list[idx] raises IndexError for an
\* invalid idx; the first element of another class prints and returns False
RECURSIVE ListElementLoop(_, _, _)
ListElementLoop(check_list, check_type, idx_list) ==
    IF idx_list = <<>>
    THEN [ret |-> Return(TRUE), printed |-> <<>>]
    ELSE LET idx == Head(idx_list)
         IN  IF ~ValidIndex(check_list, idx)
             THEN [ret |-> Raise("IndexError", "list index out of range"),
                   printed |-> <<>>]
             ELSE IF ListGet(check_list, idx) # check_type
             THEN [ret |-> Return(FALSE),
                   printed |-> <<[expected |-> check_type,
                                  found |-> ListGet(check_list, idx)]>>]
             ELSE ListElementLoop(check_list, check_type, Tail(idx_list))

\* the positions compared with the length of the checked sequence
check_type_list_element_SequenceBound(check_list, check_type, index_list) ==
    IF index_list.kind = "none"
    THEN [ret |-> Raise("TypeError", "'NoneType' object is not iterable"),
          printed |-> <<>>]
    ELSE IF index_list.kind = "int"
    THEN [ret |-> Raise("TypeError", "'int' object is not iterable"),
          printed |-> <<>>]
    ELSE LET idx_list == index_list.list
             check_idx_list == SelectSeq(idx_list, LAMBDA idx : idx >= Len(check_list))
         IN  IF Len(check_idx_list) > 0
             THEN [ret |-> Raise("ValueError", "Invalid index found in index_list"),
                   printed |-> <<>>]
             ELSE ListElementLoop(check_list, check_type, idx_list)

\* lines 77-93.  The filter of line 84 iterates the argument index_list itself,
\* not idx_list: None and an int are not iterable (TypeError), and a list is
\* compared with its own length.
check_type_list_element(check_list, check_type, index_list) ==
    IF index_list.kind = "none"
    THEN [ret |-> Raise("TypeError", "'NoneType' object is not iterable"),
          printed |-> <<>>]
    ELSE IF index_list.kind = "int"
    THEN [ret |-> Raise("TypeError", "'int' object is not iterable"),
          printed |-> <<>>]
    ELSE LET idx_list == index_list.list
             check_idx_list == SelectSeq(idx_list, LAMBDA idx : idx >= Len(idx_list))
         IN  IF Len(check_idx_list) > 0
             THEN [ret |-> Raise("ValueError", "Invalid index found in index_list"),
                   printed |-> <<>>]
             ELSE ListElementLoop(check_list, check_type, idx_list)

\* the index_list argument: omitted (None), one int, or a list of ints
IndexListArgs ==
    {[kind |-> "none"]}
        \cup {[kind |-> "int", int |-> v] : v \in IndexValues}
        \cup {[kind |-> "list", list |-> l] : l \in SeqsUpTo(IndexValues, MaxIndexListLen)}

InitListCheck ==
    /\ fn = "check_type_list_element"
    /\ args \in [check_list : SeqsUpTo(Types, MaxListLen), check_type : Types,
                 index_list : IndexListArgs]
    /\ pc = "call"
    /\ ret = NoResult
    /\ stdout = <<>>
    /\ df = NoDf
    /\ col_i = 0
    /\ fs = NoFs
    /\ events = <<>>

CallCheckTypeListElement ==
    /\ pc = "call"
    /\ fn = "check_type_list_element"
    /\ LET r == check_type_list_element(args.check_list, args.check_type, args.index_list)
       IN  /\ ret' = r.ret
           /\ stdout' = stdout \o r.printed
    /\ pc' = "done"
    /\ UNCHANGED <<fs, events, fn, args, df, col_i>>

NextListCheck == CallCheckTypeListElement

SpecListCheck == InitListCheck /\ [][NextListCheck]_vars

ListCheckDone == pc = "done" /\ fn = "check_type_list_element"

\* every listed position of the sequence holds an element of class T
AllOfType(check_list, check_type, positions) ==
    \A k \in 1..Len(positions) : ListGet(check_list, positions[k]) = check_type

\* C2: with index_list omitted the call checks every position and returns True
\* iff every element has the type (False otherwise); with one integer or a list
\* of positions of the sequence it checks exactly those positions.
C2_ChecksNamedPositions ==
    ListCheckDone =>
        LET s == args.check_list
            T == args.check_type
            a == args.index_list
        IN  /\ a.kind = "none" =>
                   ret = Return(AllOfType(s, T, PyRange(Len(s))))
            /\ (a.kind = "int" /\ ValidIndex(s, a.int)) =>
                   ret = Return(AllOfType(s, T, <<a.int>>))
            /\ (a.kind = "list" /\ \A k \in 1..Len(a.list) : ValidIndex(s, a.list[k])) =>
                   ret = Return(AllOfType(s, T, a.list))

\* C6: a call whose index_list contains a position that is out of range for the
\* checked sequence ends in an error and returns neither True nor False.
C6_OutOfRangeIsError ==
    (ListCheckDone /\ args.index_list.kind = "list"
        /\ \E k \in 1..Len(args.index_list.list) :
               ~ValidIndex(args.check_list, args.index_list.list[k])) =>
        ret.kind = "raise"

(***************************************************************************)
(* filter_duplicated_word (basic.py, basic_process.py)                     *)
(***************************************************************************)
MaxTextLen == 5

\* the characters of the texts: two letters and the blank
TextChars == {"a", "b", " "}

\* the documented example "a b a c b"
ExampleText == <<"a", " ", "b", " ", "a", " ", "c", " ", "b">>

\* text.split(sep), sep not empty: scan from position i; the token under way
\* starts at position tok
RECURSIVE SplitFrom(_, _, _, _)
SplitFrom(text, sep, i, tok) ==
    IF i + Len(sep) - 1 > Len(text)
    THEN <<SubSeq(text, tok, Len(text))>>
    ELSE IF SubSeq(text, i, i + Len(sep) - 1) = sep
    THEN <<SubSeq(text, tok, i - 1)>>
             \o SplitFrom(text, sep, i + Len(sep), i + Len(sep))
    ELSE SplitFrom(text, sep, i + 1, tok)

Split(text, sep) == SplitFrom(text, sep, 1, 1)

\* sep.join(words)
RECURSIVE Join(_, _)
Join(words, sep) ==
    IF words = <<>> THEN <<>>
    ELSE IF Len(words) = 1 THEN words[1]
    ELSE words[1] \o sep \o Join(Tail(words), sep)

\* tmp_list.index(word): the first position of the word
IndexOf(tmp_list, word) == CHOOSE p \in 1..Len(tmp_list) :
    tmp_list[p] = word /\ \A q \in 1..(p - 1) : tmp_list[q] # word

\* the last occurrence popped in place of the first
PopWord_Last(tmp_list, word) ==
    RemoveAt(tmp_list, CHOOSE p \in 1..Len(tmp_list) :
        tmp_list[p] = word /\ \A q \in (p + 1)..Len(tmp_list) : tmp_list[q] # word)

\* tmp_list.pop(tmp_list.index(word))
PopWord(tmp_list, word) == RemoveAt(tmp_list, IndexOf(tmp_list, word))

\* for i in range(n): tmp_list.pop(tmp_list.index(word))
RECURSIVE PopWordTimes(_, _, _)
PopWordTimes(tmp_list, word, n) ==
    IF n <= 0 THEN tmp_list
    ELSE PopWordTimes(PopWord(tmp_list, word), word, n - 1)

\* "for word in tmp_list" over the list that the body shortens: the iterator
\* holds a position (it, 0-based) and stops when it reaches the current length
RECURSIVE DedupLoop(_, _)
DedupLoop(tmp_list, it) ==
    IF it >= Len(tmp_list) THEN tmp_list
    ELSE LET word == tmp_list[it + 1]
             word_cnt == Count(tmp_list, word)
         IN  DedupLoop(IF word_cnt > 1
                       THEN PopWordTimes(tmp_list, word, word_cnt - 1)
                       ELSE tmp_list,
                       it + 1)

\* every order in which list(set(words)) may list the distinct words
SetOrders(words) ==
    LET S == Range(words)
    IN  {p \in [1..Cardinality(S) -> S] : \A j, k \in DOMAIN p : p[j] = p[k] => j = k}

\* the set() of the forward branch forgotten
filter_duplicated_word_NoSet(text, sep, reverse) ==
    IF sep = <<>> THEN {Raise("ValueError", "empty separator")}
    ELSE IF reverse
    THEN {Return(Join(Reverse(DedupLoop(Reverse(Split(text, sep)), 0)), sep))}
    ELSE {Return(Join(Split(text, sep), sep))}

\* the outcomes of filter_duplicated_word(text, sep, reverse): one for
\* reverse=True, one per iteration order of the set for reverse=False
filter_duplicated_word(text, sep, reverse) ==
    IF sep = <<>> THEN {Raise("ValueError", "empty separator")}
    ELSE IF reverse
    THEN {Return(Join(Reverse(DedupLoop(Reverse(Split(text, sep)), 0)), sep))}
    ELSE {Return(Join(p, sep)) : p \in SetOrders(Split(text, sep))}

Texts == SeqsUpTo(TextChars, MaxTextLen) \cup {ExampleText}

Seps == {<<>>, <<" ">>, <<"b">>, <<"a", "b">>}

InitWords ==
    /\ fn = "filter_duplicated_word"
    /\ args \in [text : Texts, sep : Seps, reverse : BOOLEAN]
    /\ pc = "call"
    /\ ret = NoResult
    /\ stdout = <<>>
    /\ df = NoDf
    /\ col_i = 0
    /\ fs = NoFs
    /\ events = <<>>

CallFilterDuplicatedWord ==
    /\ pc = "call"
    /\ fn = "filter_duplicated_word"
    /\ ret' \in filter_duplicated_word(args.text, args.sep, args.reverse)
    /\ pc' = "done"
    /\ UNCHANGED <<fs, events, fn, args, stdout, df, col_i>>

NextWords == CallFilterDuplicatedWord

SpecWords == InitWords /\ [][NextWords]_vars

\* the words at the positions k..Len(words) whose entry of `keep` is TRUE
RECURSIVE KeepPositions(_, _, _)
KeepPositions(words, keep, k) ==
    IF k > Len(words) THEN <<>>
    ELSE (IF keep[k] THEN <<words[k]>> ELSE <<>>) \o KeepPositions(words, keep, k + 1)

\* each word's last occurrence, in the original order
LastOccurrences(words) ==
    LET keep == [k \in 1..Len(words) |->
                    \A j \in (k + 1)..Len(words) : words[j] # words[k]]
    IN  KeepPositions(words, keep, 1)

\* each word's first occurrence, in the original order
FirstOccurrences(words) ==
    LET keep == [k \in 1..Len(words) |->
                    \A j \in 1..(k - 1) : words[j] # words[k]]
    IN  KeepPositions(words, keep, 1)

WordsDone == pc = "done" /\ fn = "filter_duplicated_word" /\ ret.kind = "return"

MaxRows == 3
MaxColumnListLen == 2

DfColumns == {"a", "b"}

\* the column names a caller may pass: those of the table and a missing one
ColumnNames == DfColumns \cup {"z"}

DataFrame(index, rows) ==
    [type |-> "DataFrame", columns |-> DfColumns, index |-> index, rows |-> rows]

\* fresh tables of 0..MaxRows rows with cells drawn from Cells
DataFrames(Cells) ==
    {DataFrame([k \in 1..Len(rows) |-> k - 1], rows) :
        rows \in SeqsUpTo([DfColumns -> Cells], MaxRows)}

\* bool(obj), as "not obj" and "if obj" evaluate it: pandas refuses to give a
\* DataFrame a truth value (NDFrame.__bool__ always raises ValueError)
Truth(obj) ==
    CASE obj.type = "DataFrame" ->
             Raise("ValueError", "The truth value of a DataFrame is ambiguous")
      [] obj.type = "list" -> Return(Len(obj.rows) > 0)
      [] OTHER -> Return(FALSE)

\* rows j and k agree on every column of column_list
SameKey(frame, column_list, j, k) ==
    \A c \in Range(column_list) : frame.rows[j][c] = frame.rows[k][c]

\* df.duplicated(column_list, keep=keep): the mask of the rows that repeat an
\* earlier (keep="first") or a later (keep="last") row on column_list
Duplicated(frame, column_list, keep) ==
    [k \in 1..Len(frame.rows) |->
        IF keep = "first"
        THEN \E j \in 1..(k - 1) : SameKey(frame, column_list, j, k)
        ELSE \E j \in (k + 1)..Len(frame.rows) : SameKey(frame, column_list, j, k)]

\* the positions k..Len(mask) whose mask entry is True, in increasing order
RECURSIVE PositionsFrom(_, _)
PositionsFrom(mask, k) ==
    IF k > Len(mask) THEN <<>>
    ELSE (IF mask[k] THEN <<k>> ELSE <<>>) \o PositionsFrom(mask, k + 1)

\* df[mask]: the rows whose mask entry is True, with their labels
BoolIndex(frame, mask) ==
    LET pos == PositionsFrom(mask, 1)
    IN  DataFrame([k \in 1..Len(pos) |-> frame.index[pos[k]]],
                  [k \in 1..Len(pos) |-> frame.rows[pos[k]]])

\* df[df.duplicated(column_list) | df.duplicated(column_list, keep='last')]
AllDuplicateRows(frame, column_list) ==
    IF frame.type # "DataFrame"
    THEN Raise("AttributeError", "object has no attribute 'duplicated'")
    ELSE IF \E c \in Range(column_list) : c \notin frame.columns
    THEN Raise("KeyError", "column not in the table")
    ELSE LET first == Duplicated(frame, column_list, "first")
             last == Duplicated(frame, column_list, "last")
         IN  Return(BoolIndex(frame, [k \in 1..Len(frame.rows) |-> first[k] \/ last[k]]))

(***************************************************************************)
(* get_all_duplicate (dataframe.py, df_process.py) and its predecessor     *)
(* get_all_duplicated (df/df_process.py), which has no emptiness check     *)
(***************************************************************************)
get_all_duplicate(frame, column_list) ==
    LET truth == Truth(frame)
    IN  IF truth.kind = "raise" THEN truth
        ELSE IF ~truth.val THEN Raise("ValueError", "DataFrame is empty")
        ELSE AllDuplicateRows(frame, column_list)

get_all_duplicated(frame, column_list) == AllDuplicateRows(frame, column_list)

\* the objects passed as df: tables, and two objects that are no table
DupFrames ==
    DataFrames({1, 2})
        \cup {[type |-> "list", rows |-> <<>>], [type |-> "list", rows |-> <<1>>]}

ColumnLists == SeqsUpTo(ColumnNames, MaxColumnListLen) \ {<<>>}

InitDup ==
    /\ fn \in {"get_all_duplicate", "get_all_duplicated"}
    /\ df \in DupFrames
    /\ args \in [column_list : ColumnLists]
    /\ pc = "call"
    /\ ret = NoResult
    /\ stdout = <<>>
    /\ col_i = 0
    /\ fs = NoFs
    /\ events = <<>>

CallGetAllDuplicate ==
    /\ pc = "call"
    /\ fn = "get_all_duplicate"
    /\ ret' = get_all_duplicate(df, args.column_list)
    /\ pc' = "done"
    /\ UNCHANGED <<fs, events, fn, args, stdout, df, col_i>>

CallGetAllDuplicated ==
    /\ pc = "call"
    /\ fn = "get_all_duplicated"
    /\ ret' = get_all_duplicated(df, args.column_list)
    /\ pc' = "done"
    /\ UNCHANGED <<fs, events, fn, args, stdout, df, col_i>>

NextDup == CallGetAllDuplicate \/ CallGetAllDuplicated

SpecDup == InitDup /\ [][NextDup]_vars

\* a finished call of get_all_duplicate on a table, by columns of the table
DupDone ==
    /\ pc = "done"
    /\ fn = "get_all_duplicate"
    /\ df.type = "DataFrame"
    /\ Range(args.column_list) \subseteq df.columns

\* row k of the table belongs to a group of two or more rows on column_list
InGroupOfTwo(frame, column_list, k) ==
    \E j \in 1..Len(frame.rows) : j # k /\ SameKey(frame, column_list, j, k)

\* C7: on a table with at least one row get_all_duplicate raises no error and
\* returns exactly the rows that belong to a group of two or more rows on
\* column_list, first and later occurrences alike, in their original order.
C7_ReturnsAllGroupMembers ==
    (DupDone /\ Len(df.rows) >= 1) =>
        /\ ret.kind = "return"
        /\ LET members == [k \in 1..Len(df.rows) |->
                              InGroupOfTwo(df, args.column_list, k)]
               pos == PositionsFrom(members, 1)
           IN  ret.val = DataFrame([k \in 1..Len(pos) |-> df.index[pos[k]]],
                                   [k \in 1..Len(pos) |-> df.rows[pos[k]]])

\* C8: get_all_duplicate fails with its empty-input ValueError exactly when the
\* table has zero rows.
C8_EmptyErrorIffNoRows ==
    DupDone =>
        (ret = Raise("ValueError", "DataFrame is empty") <=> Len(df.rows) = 0)

(***************************************************************************)
(* convert_str_column_to_datetime (dataframe.py; df_process.py has the     *)
(* same body under the name convert_str_columns_to_datetime).              *)
(* The DataFrame is the caller's object: the loop assigns to it in place,  *)
(* one column per iteration, so the call is modelled one iteration at a    *)
(* time.  args.df keeps the table as it was when it was passed.            *)
(***************************************************************************)
DateFormat == "%Y-%m-%d"

\* a cell that is a str, and the Timestamp that pandas makes of it
StrCell(text) == [type |-> "str", text |-> text]
Timestamp(text) == [type |-> "Timestamp", text |-> text]

\* the str cells of the tables: one that matches DateFormat, one that does not
DateCells == {StrCell("2020-01-02"), StrCell("n/a")}

\* strptime accepts the text under the format
Parses(text, format) == format = DateFormat /\ text = "2020-01-02"

\* pd.to_datetime of one value: a Timestamp stays, a str is parsed
CellParses(cell, format) == cell.type = "Timestamp" \/ Parses(cell.text, format)
CellToDatetime(cell) == Timestamp(cell.text)

\* check_df
check_df(frame) ==
    IF frame.type # "DataFrame"
    THEN Raise("TypeError", "Type of target df name must be DataFrame")
    ELSE Return("None")

\* check_column: a str becomes a one-element list, a list stays
check_column(columns) ==
    IF columns.kind = "str" THEN Return(<<columns.name>>)
    ELSE IF columns.kind # "list"
    THEN Raise("TypeError", "Type of target column name must be str or list")
    ELSE Return(columns.names)

\* the table with cells[k] in column `column` of each row k
WithColumn(frame, column, cells) ==
    [frame EXCEPT !.rows =
        [k \in 1..Len(frame.rows) |-> [frame.rows[k] EXCEPT ![column] = cells[k]]]]

\* a variant that converts the column cell by cell and stops at the first value
\* that does not parse
ColumnStep_CellByCell(frame, column, format) ==
    IF column \notin frame.columns
    THEN [ret |-> Raise("KeyError", column), df |-> frame]
    ELSE IF \E k \in 1..Len(frame.rows) : ~CellParses(frame.rows[k][column], format)
    THEN LET bad == CHOOSE k \in 1..Len(frame.rows) :
                        /\ ~CellParses(frame.rows[k][column], format)
                        /\ \A j \in 1..(k - 1) : CellParses(frame.rows[j][column], format)
             cells == [k \in 1..Len(frame.rows) |->
                          IF k < bad THEN CellToDatetime(frame.rows[k][column])
                          ELSE frame.rows[k][column]]
         IN  [ret |-> Raise("ValueError", "time data does not match format"),
              df |-> WithColumn(frame, column, cells)]
    ELSE LET cells == [k \in 1..Len(frame.rows) |->
                          CellToDatetime(frame.rows[k][column])]
         IN  [ret |-> NoResult, df |-> WithColumn(frame, column, cells)]

\* one iteration: df.loc[:, column] = pd.to_datetime(df[column], format=...).
\* df[column] raises KeyError for a missing column and to_datetime raises
\* ValueError for a value that does not parse, both before the assignment.
ColumnStep(frame, column, format) ==
    IF column \notin frame.columns
    THEN [ret |-> Raise("KeyError", column), df |-> frame]
    ELSE IF \E k \in 1..Len(frame.rows) : ~CellParses(frame.rows[k][column], format)
    THEN [ret |-> Raise("ValueError", "time data does not match format"), df |-> frame]
    ELSE LET cells == [k \in 1..Len(frame.rows) |->
                          CellToDatetime(frame.rows[k][column])]
         IN  [ret |-> NoResult, df |-> WithColumn(frame, column, cells)]

\* the columns argument: one name, a list of names, or neither (None, a tuple)
ColumnSpecs ==
    {[kind |-> "str", name |-> c] : c \in ColumnNames}
        \cup {[kind |-> "list", names |-> l] : l \in SeqsUpTo(ColumnNames, MaxColumnListLen)}
        \cup {[kind |-> "other"]}

DatetimeFrames == DataFrames(DateCells) \cup {[type |-> "list", rows |-> <<>>]}

InitDatetime ==
    /\ fn = "convert_str_column_to_datetime"
    /\ df \in DatetimeFrames
    /\ \E columns \in ColumnSpecs :
           args = [df |-> df, columns |-> columns, datetime_format |-> DateFormat]
    /\ pc = "call"
    /\ ret = NoResult
    /\ stdout = <<>>
    /\ col_i = 0
    /\ fs = NoFs
    /\ events = <<>>

\* line 150 and the evaluation of check_column(columns) in line 151
ValidateDatetimeArgs ==
    /\ pc = "call"
    /\ fn = "convert_str_column_to_datetime"
    /\ IF check_df(df).kind = "raise"
       THEN ret' = check_df(df) /\ pc' = "done" /\ col_i' = col_i
       ELSE IF check_column(args.columns).kind = "raise"
       THEN ret' = check_column(args.columns) /\ pc' = "done" /\ col_i' = col_i
       ELSE ret' = ret /\ pc' = "loop" /\ col_i' = 1
    /\ UNCHANGED <<fs, events, fn, args, stdout, df>>

\* one iteration of the loop of lines 151-152
ConvertColumn ==
    /\ pc = "loop"
    /\ col_i <= Len(check_column(args.columns).val)
    /\ LET step == ColumnStep(df, check_column(args.columns).val[col_i],
                              args.datetime_format)
       IN  /\ df' = step.df
           /\ IF step.ret.kind = "raise"
              THEN ret' = step.ret /\ pc' = "done" /\ col_i' = col_i
              ELSE ret' = ret /\ pc' = "loop" /\ col_i' = col_i + 1
    /\ UNCHANGED <<fs, events, fn, args, stdout>>

\* line 154: the loop is over, the same object is returned
ReturnConverted ==
    /\ pc = "loop"
    /\ col_i > Len(check_column(args.columns).val)
    /\ ret' = Return(df)
    /\ pc' = "done"
    /\ UNCHANGED <<fs, events, fn, args, stdout, df, col_i>>

NextDatetime == ValidateDatetimeArgs \/ ConvertColumn \/ ReturnConverted

SpecDatetime == InitDatetime /\ [][NextDatetime]_vars

DatetimeFailed ==
    pc = "done" /\ fn = "convert_str_column_to_datetime" /\ ret.kind = "raise"

\* column c of the table as passed cannot be converted: it is missing or holds
\* a value that does not parse
Unconvertible(c) ==
    \/ c \notin args.df.columns
    \/ \E k \in 1..Len(args.df.rows) :
           ~CellParses(args.df.rows[k][c], args.datetime_format)

\* C9 as stated: whenever the call fails, every column of df holds the values
\* it had before the call.
C9_FailureLeavesDfUntouched ==
    DatetimeFailed => df = args.df

\* C9 as amended: a call that fails its validation (df is no DataFrame, the
\* column spec is neither str nor list) leaves df untouched; a call that fails
\* at a listed column (missing, or holding a value that does not parse) leaves
\* that column and every column not listed before it with their old values,
\* and has converted every column listed before it.
C9_FailureKeepsFailingColumnOnly ==
    DatetimeFailed =>
        IF ret.exc = "TypeError"
        THEN df = args.df
        ELSE LET cols == args.columns
                 names == IF cols.kind = "str" THEN <<cols.name>> ELSE cols.names
                 p == CHOOSE q \in 1..Len(names) :
                          /\ Unconvertible(names[q])
                          /\ \A j \in 1..(q - 1) : ~Unconvertible(names[j])
                 before == {names[j] : j \in 1..(p - 1)}
             IN  /\ \E q \in 1..Len(names) : Unconvertible(names[q])
                 /\ ret.exc = IF names[p] \in args.df.columns
                              THEN "ValueError" ELSE "KeyError"
                 /\ df.index = args.df.index
                 /\ \A k \in 1..Len(df.rows) : \A c \in df.columns :
                        df.rows[k][c] = IF c \in before
                                        THEN CellToDatetime(args.df.rows[k][c])
                                        ELSE args.df.rows[k][c]

\* a call for ["a", "z"] has converted column a and then failed at the missing z
C9_Witness ==
    /\ DatetimeFailed
    /\ ret.exc = "KeyError"
    /\ args.columns = [kind |-> "list", names |-> <<"a", "z">>]
    /\ Len(df.rows) = 2
    /\ df # args.df
    /\ \A k \in 1..2 : df.rows[k]["a"].type = "Timestamp"

(***************************************************************************)
(* convert_string_to_timedelta (basic.py, basic_process.py)                *)
(***************************************************************************)
MaxDurationLen == 7

\* the characters of the texts that are enumerated: digits, the two
\* separators and the sign
DurationChars == {"1", "2", ":", ".", "-"}

Digits == {"0", "1", "2", "3", "4", "5", "6", "7", "8", "9"}

DigitValue(c) ==
    CASE c = "0" -> 0 [] c = "1" -> 1 [] c = "2" -> 2 [] c = "3" -> 3
      [] c = "4" -> 4 [] c = "5" -> 5 [] c = "6" -> 6 [] c = "7" -> 7
      [] c = "8" -> 8 [] c = "9" -> 9

\* the value of a non-empty run of decimal digits
RECURSIVE DecimalValue(_)
DecimalValue(s) ==
    IF Len(s) = 0 THEN 0
    ELSE 10 * DecimalValue(SubSeq(s, 1, Len(s) - 1)) + DigitValue(s[Len(s)])

\* int(s) accepts s: an optional sign and one or more decimal digits (blanks
\* around the number and "_" between digits are not among the characters
\* of the modelled texts)
IntAccepts(s) ==
    LET body == IF Len(s) > 0 /\ s[1] \in {"+", "-"} THEN Tail(s) ELSE s
    IN  Len(body) > 0 /\ \A k \in 1..Len(body) : body[k] \in Digits

\* int(s), for a text that int accepts
PyInt(s) ==
    IF s[1] = "-" THEN -DecimalValue(Tail(s))
    ELSE IF s[1] = "+" THEN DecimalValue(Tail(s))
    ELSE DecimalValue(s)

\* datetime.timedelta(days, seconds): the seconds are carried into the days,
\* and a day count beyond 999999999 is refused
timedelta(days, seconds) ==
    LET d == days + (seconds \div 86400)
        s == seconds % 86400
    IN  IF d > 999999999 \/ d < -999999999
        THEN Raise("OverflowError", "days must have magnitude <= 999999999")
        ELSE Return([days |-> d, seconds |-> s])

\* int(tmp[2]) + int(tmp[1]) * 60 + int(tmp[0]) * 3600 with the weights of the
\* hours and the minutes exchanged
TotalSec_Swapped(tmp) == PyInt(tmp[3]) + PyInt(tmp[2]) * 3600 + PyInt(tmp[1]) * 60

\* line 153
TotalSec(tmp) == PyInt(tmp[3]) + PyInt(tmp[2]) * 60 + PyInt(tmp[1]) * 3600

\* lines 149-155, for the day count and the text after the days
TimeOfDay(string, days, rest) ==
    LET tmp == Split(rest, <<":">>)
    IN  IF Len(tmp) # 3
        THEN Raise("ValueError", "is not a valid timedelta string")
        ELSE IF \E k \in 1..3 : ~IntAccepts(tmp[k])
        THEN Raise("ValueError", "invalid literal for int() with base 10")
        ELSE timedelta(days, TotalSec(tmp))

\* lines 138-147, then the rest
convert_string_to_timedelta(string) ==
    LET tmp == Split(string, <<".">>)
    IN  IF Len(tmp) = 2
        THEN IF ~IntAccepts(tmp[1])
             THEN Raise("ValueError", "invalid literal for int() with base 10")
             ELSE TimeOfDay(string, PyInt(tmp[1]), tmp[2])
        ELSE IF Len(tmp) = 1
        THEN TimeOfDay(string, 0, tmp[1])
        ELSE Raise("ValueError", "is not a valid timedelta string")

\* the documented examples and texts with a sign or a letter
DurationExamples ==
    { <<"1", ".", "0", "2", ":", "0", "3", ":", "0", "4">>,
      <<"0", "2", ":", "0", "3", ":", "0", "4">>,
      <<"b", "a", "d">>,
      <<"1", ":", "x", ":", "2">>,
      <<"x", ".", "1", ":", "2", ":", "1">>,
      <<"-", "1", ".", "2", ":", "1", ":", "1">>,
      <<"1", ":", "2", ":", "1", ".", "5">> }

DurationTexts == SeqsUpTo(DurationChars, MaxDurationLen) \cup DurationExamples

InitTimedelta ==
    /\ fn = "convert_string_to_timedelta"
    /\ args \in [string : DurationTexts]
    /\ pc = "call"
    /\ ret = NoResult
    /\ stdout = <<>>
    /\ df = NoDf
    /\ col_i = 0
    /\ fs = NoFs
    /\ events = <<>>

CallConvertStringToTimedelta ==
    /\ pc = "call"
    /\ fn = "convert_string_to_timedelta"
    /\ ret' = convert_string_to_timedelta(args.string)
    /\ pc' = "done"
    /\ UNCHANGED <<fs, events, fn, args, stdout, df, col_i>>

NextTimedelta == CallConvertStringToTimedelta

SpecTimedelta == InitTimedelta /\ [][NextTimedelta]_vars

\* a field that is an integer: an optional sign, then digits only
IntegerField(f) ==
    \/ Len(f) >= 1 /\ \A k \in 1..Len(f) : f[k] \in Digits
    \/ Len(f) >= 2 /\ f[1] \in {"+", "-"} /\ \A k \in 2..Len(f) : f[k] \in Digits

\* the seconds that a text of shape HH:MM:SS with integer fields denotes, added
\* to those of `days` days: a set with one element, or empty for another shape
TimeShapeSeconds(t, days) ==
    {days * 86400 + PyInt(SubSeq(t, 1, i - 1)) * 3600
         + PyInt(SubSeq(t, i + 1, j - 1)) * 60 + PyInt(SubSeq(t, j + 1, Len(t))) :
        <<i, j>> \in {<<i, j>> \in (1..Len(t)) \X (1..Len(t)) :
            /\ i < j /\ t[i] = ":" /\ t[j] = ":"
            /\ IntegerField(SubSeq(t, 1, i - 1))
            /\ IntegerField(SubSeq(t, i + 1, j - 1))
            /\ IntegerField(SubSeq(t, j + 1, Len(t)))}}

\* the seconds that a text of shape [days.]HH:MM:SS denotes
DurationShapeSeconds(text) ==
    TimeShapeSeconds(text, 0)
        \cup UNION {TimeShapeSeconds(SubSeq(text, p + 1, Len(text)),
                                     PyInt(SubSeq(text, 1, p - 1))) :
                       p \in {p \in 1..Len(text) :
                           text[p] = "." /\ IntegerField(SubSeq(text, 1, p - 1))}}

TimedeltaDone == pc = "done" /\ fn = "convert_string_to_timedelta"

MaxPathLen == 4

PathChars == {"~", ".", "/", "a"}

pardir == <<".", ".">>

curdir == <<".">>

HomeDir == <<"/", "h">>

HomeOfA == <<"/", "a">>

CurrentDirs == {<<"/", "r", "/", "w">>, <<"/">>}

\* str.startswith(prefix)
StartsWith(s, prefix) ==
    /\ Len(s) >= Len(prefix)
    /\ SubSeq(s, 1, Len(prefix)) = prefix

\* the slice s[n:]
SliceFrom(s, n) == SubSeq(s, n + 1, Len(s))

\* str.find(c, start) for a one-character c: -1 when absent, else the 0-based position
RECURSIVE FindFrom(_, _, _)
FindFrom(s, c, start) ==
    IF start >= Len(s) THEN -1
    ELSE IF s[start + 1] = c THEN start
    ELSE FindFrom(s, c, start + 1)

\* str.rstrip("/")
RECURSIVE RStripSep(_)
RStripSep(s) ==
    IF s # <<>> /\ s[Len(s)] = "/" THEN RStripSep(SubSeq(s, 1, Len(s) - 1)) ELSE s

\* posixpath.join(a, b)
PathJoin(a, b) ==
    IF StartsWith(b, <<"/">>) THEN b
    ELSE IF a = <<>> \/ a[Len(a)] = "/" THEN a \o b
    ELSE a \o <<"/">> \o b

\* posixpath.dirname of a normalized absolute directory: what
\* os.path.abspath(os.path.pardir) yields when cwd is the current directory
RECURSIVE DirName(_)
DirName(cwd) ==
    IF cwd = <<"/">> THEN cwd
    ELSE IF cwd[Len(cwd)] = "/" THEN (IF Len(cwd) = 1 THEN cwd ELSE RStripSep(cwd))
    ELSE DirName(SubSeq(cwd, 1, Len(cwd) - 1))

\* os.path.abspath(name) for name in {pardir, curdir}
abspath(name, cwd) == IF name = pardir THEN DirName(cwd) ELSE cwd

\* posixpath.expanduser
expanduser(path, env) ==
    IF ~StartsWith(path, <<"~">>) THEN path
    ELSE LET found == FindFrom(path, "/", 1)
             i == IF found < 0 THEN Len(path) ELSE found
             name == SubSeq(path, 2, i)
         IN  IF i = 1
             THEN LET expanded == RStripSep(HomeDir) \o SliceFrom(path, i)
                  IN  IF expanded = <<>> THEN <<"/">> ELSE expanded
             ELSE IF name = <<"a">> /\ env.user_a
             THEN RStripSep(HomeOfA) \o SliceFrom(path, i)
             ELSE path

\* posixpath.normcase returns its argument unchanged
normcase(path) == path

expand_relative_path(path, env) ==
    LET expanded ==
            IF StartsWith(path, <<"~">>) THEN expanduser(path, env)
            ELSE IF StartsWith(path, pardir)
            THEN PathJoin(abspath(pardir, env.cwd), SliceFrom(path, Len(pardir) + 1))
            ELSE IF StartsWith(path, curdir)
            THEN PathJoin(abspath(curdir, env.cwd), SliceFrom(path, Len(curdir) + 1))
            ELSE path
    IN  Return(normcase(expanded))

Paths == SeqsUpTo(PathChars, MaxPathLen)

Environments == [cwd : CurrentDirs, user_a : BOOLEAN]

InitPath ==
    /\ fn = "expand_relative_path"
    /\ args \in [path : Paths, env : Environments]
    /\ pc = "call"
    /\ ret = NoResult
    /\ stdout = <<>>
    /\ df = NoDf
    /\ col_i = 0
    /\ fs = NoFs
    /\ events = <<>>

CallExpandRelativePath ==
    /\ pc = "call"
    /\ fn = "expand_relative_path"
    /\ ret' = expand_relative_path(args.path, args.env)
    /\ pc' = "done"
    /\ UNCHANGED <<fs, events, fn, args, stdout, df, col_i>>

NextPath == CallExpandRelativePath

SpecPath == InitPath /\ [][NextPath]_vars

PathDone == pc = "done" /\ fn = "expand_relative_path"

\* posixpath.isabs
IsAbs(path) == StartsWith(path, <<"/">>)

\* C11: expand_relative_path returns an absolute, case-normalized path for
\* every input: for paths that start with "~", with the parent-directory
\* prefix or with the current-directory prefix, and for paths with none of them.
C11_AlwaysAbsolute ==
    PathDone =>
        /\ Returned
        /\ IsAbs(ret.val)
        /\ normcase(ret.val) = ret.val

\* What a path that starts with a dot denotes: "../rest" is rest under the
\* parent directory, "./rest" is rest under the current directory, and any
\* other name (".bashrc", "..data") is that whole name under the current directory.
DotPathDenotes(path, cwd) ==
    IF path = pardir \/ StartsWith(path, pardir \o <<"/">>)
    THEN PathJoin(DirName(cwd), SliceFrom(path, 3))
    ELSE IF path = curdir \/ StartsWith(path, curdir \o <<"/">>)
    THEN PathJoin(cwd, SliceFrom(path, 2))
    ELSE PathJoin(cwd, path)

\* C12: for a path that starts with ".." or "." expand_relative_path returns
\* the absolute parent (resp. current) directory joined with the whole
\* remainder of the path; a name that merely begins with a dot is resolved
\* under the current directory with all of its characters kept.
C12_DotPathKeepsRemainder ==
    (PathDone /\ StartsWith(args.path, curdir)) =>
        /\ Returned
        /\ ret.val = DotPathDenotes(args.path, args.env.cwd)

(***************************************************************************)
(* check_file_extension (io/file.py).                                      *)
(***************************************************************************)
MaxFilePathLen == 4

MaxExtLen == 2

MaxExtListLen == 2

FilePathChars == {"c", "C", "."}

ExtChars == {"c", "C"}

\* str.lower() on one character
Lower(c) == IF c = "C" THEN "c" ELSE c

LowerStr(s) == [k \in 1..Len(s) |-> Lower(s[k])]

\* str.endswith(suffix)
EndsWith(s, suffix) ==
    /\ Len(s) >= Len(suffix)
    /\ SubSeq(s, Len(s) - Len(suffix) + 1, Len(s)) = suffix

check_file_extension_NoLower(file_path, ext_list) ==
    LET exts == IF ext_list.kind = "str" THEN <<ext_list.ext>> ELSE ext_list.exts
    IN  Return(\E k \in 1..Len(exts) : EndsWith(file_path, <<".">> \o exts[k]))

check_file_extension(file_path, ext_list) ==
    LET exts == IF ext_list.kind = "str" THEN <<ext_list.ext>> ELSE ext_list.exts
        matches == [k \in 1..Len(exts) |->
                        EndsWith(LowerStr(file_path), <<".">> \o exts[k])]
    IN  IF \E k \in 1..Len(exts) : matches[k] THEN Return(TRUE) ELSE Return(FALSE)

FilePaths == SeqsUpTo(FilePathChars, MaxFilePathLen)

Exts == SeqsUpTo(ExtChars, MaxExtLen)

ExtListArgs ==
    [kind : {"str"}, ext : Exts] \cup [kind : {"list"}, exts : SeqsUpTo(Exts, MaxExtListLen)]

InitExt ==
    /\ fn = "check_file_extension"
    /\ args \in [file_path : FilePaths, ext_list : ExtListArgs]
    /\ pc = "call"
    /\ ret = NoResult
    /\ stdout = <<>>
    /\ df = NoDf
    /\ col_i = 0
    /\ fs = NoFs
    /\ events = <<>>

CallCheckFileExtension ==
    /\ pc = "call"
    /\ fn = "check_file_extension"
    /\ ret' = check_file_extension(args.file_path, args.ext_list)
    /\ pc' = "done"
    /\ UNCHANGED <<fs, events, fn, args, stdout, df, col_i>>

NextExt == CallCheckFileExtension

SpecExt == InitExt /\ [][NextExt]_vars

ExtDone == pc = "done" /\ fn = "check_file_extension"

GivenExts ==
    IF args.ext_list.kind = "str" THEN {args.ext_list.ext} ELSE Range(args.ext_list.exts)

\* s ends with suffix when the letter case of both is disregarded
EndsWithAnyCase(s, suffix) ==
    /\ Len(s) >= Len(suffix)
    /\ \A k \in 1..Len(suffix) : Lower(s[Len(s) - Len(suffix) + k]) = Lower(suffix[k])

HasUpper(s) == \E k \in 1..Len(s) : s[k] # Lower(s[k])

\* C13 as stated: check_file_extension(path, exts) accepts a string or a
\* collection of extensions and returns True exactly when path ends with
\* "." followed by one of them, whatever the letter case of the path and
\* whatever the letter case of the extension patterns.
C13_AnyCaseOfPathAndPattern ==
    ExtDone =>
        /\ Returned
        /\ ret.val = (\E e \in GivenExts : EndsWithAnyCase(args.file_path, <<".">> \o e))

\* C13 amended: the letter case of the path is disregarded, the extension
\* patterns are taken as given: True exactly when some pattern without an
\* uppercase letter follows a "." at the end of the path; a pattern with an
\* uppercase letter never matches.
C13_AnyCaseOfPathOnly ==
    ExtDone =>
        /\ Returned
        /\ ret.val = (\E e \in GivenExts :
                        /\ ~HasUpper(e)
                        /\ EndsWithAnyCase(args.file_path, <<".">> \o e))

C13_Witness ==
    /\ ExtDone
    /\ args.ext_list.kind = "list"
    /\ HasUpper(args.file_path)
    /\ ret = Return(TRUE)
    /\ \E e \in GivenExts : HasUpper(e) /\ EndsWithAnyCase(args.file_path, <<".">> \o e)

(***************************************************************************)
(* The file system, as os and pandas see it.  A path is a str; fs maps     *)
(* every existing absolute path (without trailing separator) to its entry: *)
(* a directory, or a file holding a table of `rows` rows.                  *)
(***************************************************************************)
DirEntry == [kind |-> "dir", rows |-> 0]

FileEntry(rows) == [kind |-> "file", rows |-> rows]

Absent == [kind |-> "absent", rows |-> 0]

\* what a system call finds at `path`: a trailing separator is accepted on
\* a directory only
StatPath(fsys, path) ==
    LET q == IF Len(path) > 1 THEN RStripSep(path) ELSE path
    IN  IF q \in DOMAIN fsys /\ (q = path \/ fsys[q].kind = "dir") THEN fsys[q] ELSE Absent

\* the names os.listdir(path) yields (in arbitrary order), path being a directory
ListDirNames(fsys, path) ==
    LET q == (IF Len(path) > 1 THEN RStripSep(path) ELSE path) \o <<"/">>
    IN  {SliceFrom(p, Len(q)) : p \in {e \in DOMAIN fsys :
            /\ Len(e) > Len(q)
            /\ StartsWith(e, q)
            /\ FindFrom(e, "/", Len(q)) = -1}}

\* every order in which the elements of S may be listed
OrdersOf(S) ==
    {p \in [1..Cardinality(S) -> S] : \A j, k \in DOMAIN p : p[j] = p[k] => j = k}

\* str.find(sub) > -1
Contains(s, sub) ==
    \E k \in 1..(Len(s) - Len(sub) + 1) : SubSeq(s, k, k + Len(sub) - 1) = sub

(***************************************************************************)
(* merge_df (processing/dataframe.py).                                     *)
(***************************************************************************)
MaxFileRows == 2

MergeDir == <<"/", "d">>

MergeNames ==
    { <<"a", ".", "c", "s", "v">>,
      <<"b", ".", "x", "l", "s">>,
      <<"n", ".", "t", "x", "t">>,
      <<"c", "s", "v">> }

\* file.split('.')[-1].find(kind) > -1
NameMatches(file, kind) ==
    LET parts == Split(file, <<".">>)
    IN  Contains(parts[Len(parts)], kind)

\* pd.read_csv / pd.read_excel of one path
ReadTable(fsys, path) ==
    LET entry == StatPath(fsys, path)
    IN  CASE entry.kind = "file" -> Return([path |-> path, rows |-> entry.rows])
          [] entry.kind = "dir" -> Raise("IsADirectoryError", path)
          [] OTHER -> Raise("FileNotFoundError", path)

RECURSIVE SumRows(_)
SumRows(frames) ==
    IF frames = <<>> THEN 0 ELSE Head(frames).rows + SumRows(Tail(frames))

\* pd.concat(frames): the rows of the frames, one frame after the other
Concat(frames) ==
    IF frames = <<>> THEN Raise("ValueError", "No objects to concatenate")
    ELSE Return([type |-> "DataFrame",
                 parts |-> [k \in 1..Len(frames) |-> frames[k].path],
                 nrows |-> SumRows(frames)])

\* merge_df with os.listdir yielding the names in the order `listing`
MergeListing(fsys, root_dir, listing) ==
    LET IsCsv(file) == NameMatches(file, <<"c", "s", "v">>)
        IsXls(file) == NameMatches(file, <<"x", "l", "s">>)
        files == SelectSeq(listing, IsCsv) \o SelectSeq(listing, IsXls)
        reads == [k \in 1..Len(files) |-> ReadTable(fsys, root_dir \o files[k])]
        failed == {k \in 1..Len(files) : reads[k].kind = "raise"}
    IN  IF failed # {}
        THEN reads[CHOOSE k \in failed : \A j \in failed : k <= j]
        ELSE Concat([k \in 1..Len(files) |-> reads[k].val])

\* the outcomes of merge_df(root_dir), one per order of os.listdir
merge_df(fsys, root_dir) ==
    IF root_dir.type # "str"
    THEN {Raise("TypeError", "Type of target directory name must be str")}
    ELSE IF StatPath(fsys, root_dir.val).kind = "absent"
    THEN {Raise("FileNotFoundError", root_dir.val)}
    ELSE IF StatPath(fsys, root_dir.val).kind = "file"
    THEN {Raise("NotADirectoryError", root_dir.val)}
    ELSE {MergeListing(fsys, root_dir.val, listing) :
              listing \in OrdersOf(ListDirNames(fsys, root_dir.val))}

MergeEntries == {Absent, DirEntry} \cup {FileEntry(n) : n \in 0..MaxFileRows}

\* the directory MergeDir holding the entries `content` gives to the names
MergeFs(content) ==
    LET present == {n \in MergeNames : content[n].kind # "absent"}
        ChildPath(n) == MergeDir \o <<"/">> \o n
    IN  [p \in {MergeDir} \cup {ChildPath(n) : n \in present} |->
            IF p = MergeDir THEN DirEntry ELSE content[SliceFrom(p, Len(MergeDir) + 1)]]

MergeFileSystems == {MergeFs(content) : content \in [MergeNames -> MergeEntries]}

RootDirs ==
    {[type |-> "str", val |-> MergeDir \o <<"/">>],
     [type |-> "str", val |-> MergeDir],
     [type |-> "str", val |-> <<"/", "q", "/">>],
     [type |-> "NoneType", val |-> <<>>]}

InitMerge ==
    /\ fn = "merge_df"
    /\ args \in [root_dir : RootDirs]
    /\ fs \in MergeFileSystems
    /\ pc = "call"
    /\ ret = NoResult
    /\ stdout = <<>>
    /\ df = NoDf
    /\ col_i = 0
    /\ events = <<>>

CallMergeDf ==
    /\ pc = "call"
    /\ fn = "merge_df"
    /\ ret' \in merge_df(fs, args.root_dir)
    /\ pc' = "done"
    /\ UNCHANGED <<fs, events, fn, args, stdout, df, col_i>>

NextMerge == CallMergeDf

SpecMerge == InitMerge /\ [][NextMerge]_vars

MergeDone == pc = "done" /\ fn = "merge_df"

\* the files directly in the directory whose extension contains csv or xls
TableFilesIn(fsys, dir) ==
    {n \in ListDirNames(fsys, dir) :
        /\ StatPath(fsys, RStripSep(dir) \o <<"/">> \o n).kind = "file"
        /\ \/ NameMatches(n, <<"c", "s", "v">>)
           \/ NameMatches(n, <<"x", "l", "s">>)}

RECURSIVE RowsOfFiles(_, _, _)
RowsOfFiles(fsys, dir, names) ==
    IF names = {} THEN 0
    ELSE LET n == CHOOSE x \in names : TRUE
         IN  fsys[RStripSep(dir) \o <<"/">> \o n].rows + RowsOfFiles(fsys, dir, names \ {n})

\* C14: merge_df(dir) loads exactly the files directly inside dir whose
\* extension contains "csv" or "xls", ignores every subdirectory of dir
\* whatever its name, and returns their row-wise concatenation: the result
\* has as many rows as the loaded files have together.
C14_LoadsFilesIgnoresFolders ==
    (/\ MergeDone
     /\ args.root_dir.type = "str"
     /\ StatPath(fs, args.root_dir.val).kind = "dir"
     /\ args.root_dir.val[Len(args.root_dir.val)] = "/"
     /\ TableFilesIn(fs, args.root_dir.val) # {}) =>
        /\ Returned
        /\ Len(ret.val.parts) = Cardinality(TableFilesIn(fs, args.root_dir.val))
        /\ Range(ret.val.parts) =
               {args.root_dir.val \o n : n \in TableFilesIn(fs, args.root_dir.val)}
        /\ ret.val.nrows =
               RowsOfFiles(fs, args.root_dir.val, TableFilesIn(fs, args.root_dir.val))

(***************************************************************************)
(* generate_dummy (processing/dataframe.py).  The table of indicator       *)
(* columns is a record with the column labels (the category values, which  *)
(* may repeat), the row labels and, for every row, the indicator values in *)
(* column order.                                                           *)
(***************************************************************************)
DummyCells == {1, 2, 3}

\* df[column]: the cells of one column, top to bottom
Series(frame, column) == [k \in 1..Len(frame.rows) |-> frame.rows[k][column]]

\* the distinct values of S in ascending order
RECURSIVE SortedValues(_)
SortedValues(S) ==
    IF S = {} THEN <<>>
    ELSE LET least == CHOOSE x \in S : \A y \in S : x <= y
         IN  <<least>> \o SortedValues(S \ {least})

\* pd.get_dummies(series) with every category kept
get_dummies_KeepFirst(series) ==
    LET kept == SortedValues(Range(series))
    IN  [labels |-> kept,
         rows |-> [r \in 1..Len(series) |->
                      [j \in 1..Len(kept) |-> IF series[r] = kept[j] THEN 1 ELSE 0]]]

\* pd.get_dummies(series, drop_first=True): one indicator column per
\* category in sorted order, the first category left out
get_dummies(series) ==
    LET categories == SortedValues(Range(series))
        kept == IF categories = <<>> THEN <<>> ELSE Tail(categories)
    IN  [labels |-> kept,
         rows |-> [r \in 1..Len(series) |->
                      [j \in 1..Len(kept) |-> IF series[r] = kept[j] THEN 1 ELSE 0]]]

\* pd.concat([dummy_df, dummies], axis=1) for tables on the same rows
ConcatColumns(dummy_df, dummies) ==
    [dummy_df EXCEPT
        !.labels = @ \o dummies.labels,
        !.rows = [r \in 1..Len(dummies.rows) |-> @[r] \o dummies.rows[r]]]

\* the loop of generate_dummy from the k-th requested column on
RECURSIVE DummyLoop(_, _, _, _)
DummyLoop(frame, column_list, k, dummy_df) ==
    IF k > Len(column_list) THEN Return(dummy_df)
    ELSE IF column_list[k] \notin frame.columns THEN Raise("KeyError", column_list[k])
    ELSE DummyLoop(frame, column_list, k + 1,
                   ConcatColumns(dummy_df, get_dummies(Series(frame, column_list[k]))))

generate_dummy(frame, columns) ==
    IF check_df(frame).kind = "raise" THEN check_df(frame)
    ELSE IF check_column(columns).kind = "raise" THEN check_column(columns)
    ELSE DummyLoop(frame, check_column(columns).val, 1,
                   [type |-> "DataFrame", labels |-> <<>>, index |-> frame.index,
                    rows |-> [r \in 1..Len(frame.rows) |-> <<>>]])

DummyFrames == DataFrames(DummyCells) \cup {[type |-> "list", rows |-> <<>>]}

InitDummy ==
    /\ fn = "generate_dummy"
    /\ df \in DummyFrames
    /\ args \in [columns : ColumnSpecs]
    /\ pc = "call"
    /\ ret = NoResult
    /\ stdout = <<>>
    /\ col_i = 0
    /\ fs = NoFs
    /\ events = <<>>

CallGenerateDummy ==
    /\ pc = "call"
    /\ fn = "generate_dummy"
    /\ ret' = generate_dummy(df, args.columns)
    /\ pc' = "done"
    /\ UNCHANGED <<fs, events, fn, args, stdout, df, col_i>>

NextDummy == CallGenerateDummy

SpecDummy == InitDummy /\ [][NextDummy]_vars

\* the call was given a table and a str or list naming columns of the table only
DummyCase ==
    /\ pc = "done"
    /\ fn = "generate_dummy"
    /\ df.type = "DataFrame"
    /\ args.columns.kind \in {"str", "list"}
    /\ Range(check_column(args.columns).val) \subseteq df.columns

Requested == check_column(args.columns).val

\* the distinct values of the j-th requested column, in ascending order
CategoriesOf(j) == SortedValues({df.rows[r][Requested[j]] : r \in 1..Len(df.rows)})

\* the number of indicator columns of the j-th requested column: k - 1
\* for its k distinct values (none for a table without rows)
WidthOf(j) == IF CategoriesOf(j) = <<>> THEN 0 ELSE Len(CategoriesOf(j)) - 1

\* the position before the first indicator column of the j-th requested column
RECURSIVE OffsetOf(_)
OffsetOf(j) == IF j <= 1 THEN 0 ELSE OffsetOf(j - 1) + WidthOf(j - 1)

\* C15: generate_dummy(df, columns) returns a table of dummy columns only:
\* each requested column with k distinct values contributes exactly k-1
\* indicator columns (its first category is dropped), no original column of
\* df appears in the result, and every row has 1 in the indicator of its own
\* category and 0 in the others, the rows of the dropped category being the
\* all-zero rows.
C15_DummyColumnsOnly ==
    DummyCase =>
        /\ Returned
        /\ Len(ret.val.labels) = OffsetOf(Len(Requested) + 1)
        /\ Len(ret.val.rows) = Len(df.rows)
        /\ \A j \in 1..Len(Requested) : \A i \in 1..WidthOf(j) :
               /\ ret.val.labels[OffsetOf(j) + i] = CategoriesOf(j)[i + 1]
               /\ \A r \in 1..Len(df.rows) :
                      ret.val.rows[r][OffsetOf(j) + i] =
                          IF df.rows[r][Requested[j]] = CategoriesOf(j)[i + 1] THEN 1 ELSE 0
        /\ \A j \in 1..Len(Requested) : \A r \in 1..Len(df.rows) :
               (df.rows[r][Requested[j]] = CategoriesOf(j)[1])
                   <=> (\A i \in 1..WidthOf(j) : ret.val.rows[r][OffsetOf(j) + i] = 0)

C15_Witness ==
    /\ DummyCase
    /\ Returned
    /\ Len(Requested) = 2
    /\ Requested[1] # Requested[2]
    /\ Len(CategoriesOf(1)) = 3
    /\ Len(CategoriesOf(2)) = 2
    /\ Len(ret.val.labels) = 3
    /\ \E r \in 1..Len(df.rows) : \A c \in 1..3 : ret.val.rows[r][c] = 0

(***************************************************************************)
(* drop_column (processing/dataframe.py).  The columns of a table are      *)
(* ordered: `order` lists the labels of `columns` from left to right.      *)
(***************************************************************************)
MaxDropRows == 1

DropColumns == {"a", "b", "c"}

DropCells == {1, 2}

\* a table with the columns `order`, rows labelled 0, 1, ...
Table(order, rows) ==
    [type |-> "DataFrame", columns |-> Range(order), order |-> order,
     index |-> [k \in 1..Len(rows) |-> k - 1], rows |-> rows]

\* df.drop(column, axis=1): a new table without the column; df itself is kept
Drop(frame, column) ==
    IF column \notin frame.columns THEN Raise("KeyError", column)
    ELSE LET Stays(c) == c # column
             order == SelectSeq(frame.order, Stays)
         IN  Return([frame EXCEPT
                        !.columns = Range(order),
                        !.order = order,
                        !.rows = [r \in 1..Len(frame.rows) |->
                                     [c \in Range(order) |-> frame.rows[r][c]]]])

\* the loop without the test "column in df.columns"
RECURSIVE DropLoop_NoGuard(_, _, _)
DropLoop_NoGuard(frame, column_list, k) ==
    IF k > Len(column_list) THEN Return(frame)
    ELSE IF Drop(frame, column_list[k]).kind = "raise" THEN Drop(frame, column_list[k])
    ELSE DropLoop_NoGuard(Drop(frame, column_list[k]).val, column_list, k + 1)

\* the loop of drop_column from the k-th name on; frame is the local df
RECURSIVE DropLoop(_, _, _)
DropLoop(frame, column_list, k) ==
    IF k > Len(column_list) THEN Return(frame)
    ELSE IF column_list[k] \in frame.columns
    THEN DropLoop(Drop(frame, column_list[k]).val, column_list, k + 1)
    ELSE DropLoop(frame, column_list, k + 1)

\* ret: how the call ends; df: the caller's table after the call (the
\* function only rebinds its local name df)
drop_column(frame, columns) ==
    [ret |-> IF check_df(frame).kind = "raise" THEN check_df(frame)
             ELSE IF check_column(columns).kind = "raise" THEN check_column(columns)
             ELSE DropLoop(frame, check_column(columns).val, 1),
     df |-> frame]

InjectiveSeqs(S) ==
    {s \in SeqsUpTo(S, Cardinality(S)) : \A j, k \in DOMAIN s : s[j] = s[k] => j = k}

DropFrames ==
    {Table(order, rows) :
        order \in InjectiveSeqs(DropColumns),
        rows \in SeqsUpTo([DropColumns -> DropCells], MaxDropRows)}

\* a table keeps the cells of its own columns only
DropTables ==
    {[t EXCEPT !.rows = [r \in 1..Len(t.rows) |-> [c \in t.columns |-> t.rows[r][c]]]] :
        t \in DropFrames}
        \cup {[type |-> "list", rows |-> <<>>]}

InitDrop ==
    /\ fn = "drop_column"
    /\ df \in DropTables
    /\ \E columns \in ColumnSpecs : args = [df |-> df, columns |-> columns]
    /\ pc = "call"
    /\ ret = NoResult
    /\ stdout = <<>>
    /\ col_i = 0
    /\ fs = NoFs
    /\ events = <<>>

CallDropColumn ==
    /\ pc = "call"
    /\ fn = "drop_column"
    /\ ret' = drop_column(df, args.columns).ret
    /\ df' = drop_column(df, args.columns).df
    /\ pc' = "done"
    /\ UNCHANGED <<fs, events, fn, args, stdout, col_i>>

NextDrop == CallDropColumn

SpecDrop == InitDrop /\ [][NextDrop]_vars

\* the call was given a table and a str or list of names
DropCase ==
    /\ pc = "done"
    /\ fn = "drop_column"
    /\ args.df.type = "DataFrame"
    /\ args.columns.kind \in {"str", "list"}

DropNamed == Range(check_column(args.columns).val)

\* the labels of `order` that are not named, in the order of `order`
RECURSIVE Unnamed(_, _)
Unnamed(order, named) ==
    IF order = <<>> THEN <<>>
    ELSE (IF Head(order) \in named THEN <<>> ELSE <<Head(order)>>)
             \o Unnamed(Tail(order), named)

\* C16: drop_column(df, columns) returns a table whose columns are exactly
\* the columns of df minus the named ones, in their original order, and
\* silently ignores names that are not columns; dropping the same names
\* again does not fail and yields the same table; the table passed in keeps
\* all of its columns.
C16_DropsNamedColumnsOnly ==
    DropCase =>
        /\ Returned
        /\ ret.val.order = Unnamed(args.df.order, DropNamed)
        /\ ret.val.columns = args.df.columns \ DropNamed
        /\ \A r \in 1..Len(args.df.rows) : \A c \in ret.val.columns :
               ret.val.rows[r][c] = args.df.rows[r][c]
        /\ Len(ret.val.rows) = Len(args.df.rows)
        /\ drop_column(ret.val, args.columns).ret = ret
        /\ df = args.df

C16_Witness ==
    /\ DropCase
    /\ Returned
    /\ args.columns.kind = "list"
    /\ Len(args.df.order) = 3
    /\ args.df.order[2] = "b"
    /\ Len(args.df.rows) = 1
    /\ DropNamed = {"b", "z"}
    /\ Len(ret.val.order) = 2

(***************************************************************************)
(* safe_rmtree (io/file.py).                                               *)
(***************************************************************************)
TreePaths ==
    { <<"/", "t">>,
      <<"/", "t", "/", "x">>,
      <<"/", "t", "/", "s">>,
      <<"/", "t", "/", "s", "/", "y">> }

\* a regular file stands where the path needs a directory (errno ENOTDIR)
FileOnWay(fsys, path) ==
    \E k \in 1..(Len(path) - 1) :
        /\ path[k + 1] = "/"
        /\ SubSeq(path, 1, k) \in DOMAIN fsys
        /\ fsys[SubSeq(path, 1, k)].kind = "file"

\* shutil.rmtree(path): ret is how it ends, fs the file system it leaves
rmtree(fsys, path) ==
    LET q == IF Len(path) > 1 THEN RStripSep(path) ELSE path
        Beneath(p) == p = q \/ StartsWith(p, q \o <<"/">>)
    IN  IF FileOnWay(fsys, path)
        THEN [ret |-> Raise("NotADirectoryError", path), fs |-> fsys]
        ELSE IF q \notin DOMAIN fsys
        THEN [ret |-> Raise("FileNotFoundError", path), fs |-> fsys]
        ELSE IF fsys[q].kind = "file"
        THEN [ret |-> Raise("NotADirectoryError", path), fs |-> fsys]
        ELSE [ret |-> Return("None"),
              fs |-> [p \in {e \in DOMAIN fsys : ~Beneath(e)} |-> fsys[p]]]

safe_rmtree(fsys, path) ==
    LET tried == rmtree(fsys, path)
    IN  IF tried.ret.kind = "raise" /\ tried.ret.exc = "FileNotFoundError"
        THEN [ret |-> Return("None"), fs |-> tried.fs,
              printed |-> <<[text |-> "Folder not found", path |-> path]>>]
        ELSE [ret |-> tried.ret, fs |-> tried.fs, printed |-> <<>>]

\* every file system over TreePaths in which each entry lies in a directory
TreeFileSystems ==
    {fsys \in UNION {[D -> {DirEntry, FileEntry(0)}] : D \in SUBSET TreePaths} :
        \A p \in DOMAIN fsys :
            DirName(p) = <<"/">>
                \/ (DirName(p) \in DOMAIN fsys /\ fsys[DirName(p)].kind = "dir")}

RmPaths ==
    TreePaths \cup { <<"/", "t", "/">>, <<"/", "t", "/", "x", "/", "y">>, <<"/", "n">> }

InitRm ==
    /\ fn = "safe_rmtree"
    /\ fs \in TreeFileSystems
    /\ \E path \in RmPaths : args = [path |-> path, fs |-> fs]
    /\ pc = "call"
    /\ ret = NoResult
    /\ stdout = <<>>
    /\ df = NoDf
    /\ col_i = 0
    /\ events = <<>>

CallSafeRmtree ==
    /\ pc = "call"
    /\ fn = "safe_rmtree"
    /\ ret' = safe_rmtree(fs, args.path).ret
    /\ fs' = safe_rmtree(fs, args.path).fs
    /\ stdout' = stdout \o safe_rmtree(fs, args.path).printed
    /\ pc' = "done"
    /\ UNCHANGED <<events, fn, args, df, col_i>>

NextRm == CallSafeRmtree

SpecRm == InitRm /\ [][NextRm]_vars

RmDone == pc = "done" /\ fn = "safe_rmtree"

\* C17: safe_rmtree(path) treats a nonexistent path as success: it raises
\* nothing and leaves the file system unchanged (only a message is
\* printed); when path is an existing directory tree, after the call
\* neither path nor any entry beneath it exists.
C17_MissingIsSuccess ==
    /\ (RmDone /\ StatPath(args.fs, args.path).kind = "absent") =>
           /\ Returned
           /\ fs = args.fs
           /\ Len(stdout) = 1
    /\ (RmDone /\ StatPath(args.fs, args.path).kind = "dir") =>
           /\ Returned
           /\ \A p \in DOMAIN fs :
                  /\ p # RStripSep(args.path)
                  /\ ~StartsWith(p, RStripSep(args.path) \o <<"/">>)

(***************************************************************************)
(* check_dict_value_type (processing/basic_process.py), the strict         *)
(* variant of check_type_dict_value: it raises instead of returning False. *)
(***************************************************************************)

\* the characters a str key yields when it is iterated
KeyChars(key) ==
    CASE key = "host" -> <<"h", "o", "s", "t">>
      [] key = "port" -> <<"p", "o", "r", "t">>
      [] key = "user" -> <<"u", "s", "e", "r">>
      [] OTHER -> <<key>>

\* the keys "for key in dict_keys" visits: all keys when dict_keys is
\* falsy (None, empty list), the characters of a str, the items of a list
StrictKeys(check_dict, dict_keys) ==
    IF dict_keys.kind = "none" THEN Keys(check_dict)
    ELSE IF dict_keys.kind = "key" THEN KeyChars(dict_keys.key)
    ELSE IF dict_keys.keys = <<>> THEN Keys(check_dict)
    ELSE dict_keys.keys

\* the error names the first key of the mapping, not the one that failed
RECURSIVE StrictLoop_NamesFirstKey(_, _, _)
StrictLoop_NamesFirstKey(check_dict, check_type, dict_keys) ==
    IF dict_keys = <<>> THEN Return("None")
    ELSE LET key == Head(dict_keys)
         IN  IF ~HasKey(check_dict, key) THEN Raise("KeyError", key)
             ELSE IF DictGet(check_dict, key) # check_type
             THEN Raise("TypeError", [key |-> check_dict[1][1], expected |-> "type",
                                      found |-> DictGet(check_dict, key)])
             ELSE StrictLoop_NamesFirstKey(check_dict, check_type, Tail(dict_keys))

\* the loop over dict_keys; the message of the TypeError is kept as the
\* values it formats: the key, the builtin `type` and the class found
RECURSIVE StrictLoop(_, _, _)
StrictLoop(check_dict, check_type, dict_keys) ==
    IF dict_keys = <<>> THEN Return("None")
    ELSE LET key == Head(dict_keys)
         IN  IF ~HasKey(check_dict, key) THEN Raise("KeyError", key)
             ELSE IF DictGet(check_dict, key) # check_type
             THEN Raise("TypeError", [key |-> key, expected |-> "type",
                                      found |-> DictGet(check_dict, key)])
             ELSE StrictLoop(check_dict, check_type, Tail(dict_keys))

check_dict_value_type(check_dict, check_type, dict_keys) ==
    StrictLoop(check_dict, check_type, StrictKeys(check_dict, dict_keys))

InitMapCheck ==
    /\ fn \in {"check_type_dict_value", "check_dict_value_type"}
    /\ args \in [check_dict : Dicts, check_type : Types, dict_keys : DictKeysArgs]
    /\ pc = "call"
    /\ ret = NoResult
    /\ stdout = <<>>
    /\ df = NoDf
    /\ col_i = 0
    /\ fs = NoFs
    /\ events = <<>>

CallCheckDictValueType ==
    /\ pc = "call"
    /\ fn = "check_dict_value_type"
    /\ ret' = check_dict_value_type(args.check_dict, args.check_type, args.dict_keys)
    /\ pc' = "done"
    /\ UNCHANGED <<fs, events, fn, args, stdout, df, col_i>>

NextMapCheck == CallCheckTypeDictValue \/ CallCheckDictValueType

SpecMapCheck == InitMapCheck /\ [][NextMapCheck]_vars

\* the soft check has failed: it returned False
SoftFailed == pc = "done" /\ fn = "check_type_dict_value" /\ ret = Return(FALSE)

\* the strict check has failed: it raised TypeError
StrictFailed ==
    pc = "done" /\ fn = "check_dict_value_type" /\ ret.kind = "raise" /\ ret.exc = "TypeError"

\* key is a key of the mapping whose value does not have the class check_type
Offending(key) ==
    /\ HasKey(args.check_dict, key)
    /\ DictGet(args.check_dict, key) # args.check_type

\* C18 as stated: whenever a mapping type check fails (the soft variant
\* returns False, the strict variant raises TypeError), the diagnostic or
\* error it produces reports a key of the mapping whose value is not of the
\* expected type.
C18_FailureReportsOffendingKey ==
    /\ StrictFailed => Offending(ret.msg.key)
    /\ SoftFailed =>
           /\ Len(stdout) = 1
           /\ "key" \in DOMAIN stdout[1]
           /\ Offending(stdout[1].key)

\* C18 amended: the TypeError of the strict variant names a key of the
\* mapping whose value does not have exactly the expected class; the
\* diagnostic of the soft variant names no key: it reports the expected type
\* and the class of a value of the mapping that differs from it.
C18_StrictReportsKeySoftReportsClass ==
    /\ StrictFailed =>
           /\ Offending(ret.msg.key)
           /\ ret.msg.found = DictGet(args.check_dict, ret.msg.key)
    /\ SoftFailed =>
           /\ Len(stdout) = 1
           /\ DOMAIN stdout[1] = {"expected", "found"}
           /\ stdout[1].expected = args.check_type
           /\ \E k \in 1..Len(args.check_dict) :
                  /\ Offending(args.check_dict[k][1])
                  /\ args.check_dict[k][2] = stdout[1].found

C18_Witness ==
    /\ StrictFailed
    /\ Len(args.check_dict) = 2
    /\ ret.msg.key = args.check_dict[2][1]
    /\ args.check_dict[1][2] = args.check_type

(***************************************************************************)
(* The I/O wrappers that take a connection-parameter mapping               *)
(* (io/oracle.py, io/hadoop.py).  `events` records, in order, what a call  *)
(* does with its mapping and with the outside: a run of the type           *)
(* validator on an argument, a read of a value of the mapping, the         *)
(* creation of a local folder, and a network or database call.             *)
(***************************************************************************)
ConnKeys == <<"USER", "PASSWORD", "PW", "IP", "PORT", "SERVICE">>

ConnTypes == {"str", "int"}

Validated(on, ok) == [op |-> "validate", on |-> on, key |-> "", ok |-> ok]

ReadOf(on, key, ok) == [op |-> "read", on |-> on, key |-> key, ok |-> ok]

Called(api) == [op |-> "call", on |-> api, key |-> "", ok |-> TRUE]

MadeDirs == [op |-> "makedirs", on |-> "local_dir_path", key |-> "", ok |-> TRUE]

\* mapping[key] for each key of `keys` in turn: the reads made, and the
\* KeyError of the first key that is missing
ReadKeys(mapping, on, keys) ==
    LET missing == {k \in 1..Len(keys) : ~HasKey(mapping, keys[k])}
        last == IF missing = {} THEN Len(keys)
                ELSE CHOOSE k \in missing : \A j \in missing : k <= j
    IN  [ret |-> IF missing = {} THEN Return("values") ELSE Raise("KeyError", keys[last]),
         events |-> [k \in 1..last |-> ReadOf(on, keys[k], HasKey(mapping, keys[k]))]]

\* get_hdfs_url called with the positional arguments `positional`
get_hdfs_url(positional) ==
    IF Len(positional) < 3
    THEN [ret |-> Raise("TypeError", "get_hdfs_url() missing 1 required positional argument: 'op'"),
          events |-> <<>>]
    ELSE ReadKeys(positional[1], "hadoop_info", <<"IP", "PORT", "USER", "USER">>)

get_oracle_connection(oracle_info) ==
    LET check == check_type_dict_value(oracle_info, "str", [kind |-> "none"])
        reads == ReadKeys(oracle_info, "oracle_info",
                          <<"USER", "PASSWORD", "IP", "PORT", "SERVICE">>)
    IN  IF check.ret # Return(TRUE)
        THEN [ret |-> Return("None"), printed |-> check.printed,
              events |-> <<Validated("oracle_info", FALSE)>>]
        ELSE IF reads.ret.kind = "raise"
        THEN [ret |-> reads.ret, printed |-> <<>>,
              events |-> <<Validated("oracle_info", TRUE)>> \o reads.events]
        ELSE [ret |-> Return("Connection"), printed |-> <<>>,
              events |-> <<Validated("oracle_info", TRUE)>> \o reads.events
                             \o <<Called("oracledb.connect")>>]

get_hive_connection(hive_info, hive_config) ==
    LET check_info == check_dict_value_type(hive_info, "str", [kind |-> "none"])
        check_config == check_dict_value_type(hive_config, "str", [kind |-> "none"])
        reads == ReadKeys(hive_info, "hive_info", <<"IP", "PORT", "USER", "PASSWORD">>)
    IN  IF check_info.kind = "raise"
        THEN [ret |-> check_info, printed |-> <<>>,
              events |-> <<Validated("hive_info", FALSE)>>]
        ELSE IF check_config.kind = "raise"
        THEN [ret |-> check_config, printed |-> <<>>,
              events |-> <<Validated("hive_info", TRUE), Validated("hive_config", FALSE)>>]
        ELSE IF reads.ret.kind = "raise"
        THEN [ret |-> reads.ret, printed |-> <<>>,
              events |-> <<Validated("hive_info", TRUE), Validated("hive_config", TRUE)>>
                             \o reads.events]
        ELSE [ret |-> Return("Connection"), printed |-> <<>>,
              events |-> <<Validated("hive_info", TRUE), Validated("hive_config", TRUE)>>
                             \o reads.events \o <<Called("hive.Connection")>>]

upload_hdfs_file(hadoop_info) ==
    LET check == check_dict_value_type(hadoop_info, "str", [kind |-> "none"])
        url == get_hdfs_url(<<"hdfs_dir_path + upload_data", "CREATE">>)
        reads == ReadKeys(hadoop_info, "hadoop_info", <<"USER", "PASSWORD">>)
    IN  IF check.kind = "raise"
        THEN [ret |-> check, printed |-> <<>>,
              events |-> <<Validated("hadoop_info", FALSE)>>]
        ELSE IF url.ret.kind = "raise"
        THEN [ret |-> url.ret, printed |-> <<>>,
              events |-> <<Validated("hadoop_info", TRUE)>> \o url.events]
        ELSE IF reads.ret.kind = "raise"
        THEN [ret |-> reads.ret, printed |-> <<>>,
              events |-> <<Validated("hadoop_info", TRUE)>> \o url.events \o reads.events]
        ELSE [ret |-> Return("response.text"), printed |-> <<"response">>,
              events |-> <<Validated("hadoop_info", TRUE)>> \o url.events \o reads.events
                             \o <<Called("requests.put")>>]

download_hdfs_file(hadoop_info) ==
    LET reads == ReadKeys(hadoop_info, "hadoop_info", <<"USER", "PW">>)
        url == get_hdfs_url(<<"hdfs_dir_path", "LISTSTATUS">>)
    IN  IF reads.ret.kind = "raise"
        THEN [ret |-> reads.ret, printed |-> <<>>, events |-> <<MadeDirs>> \o reads.events]
        ELSE IF url.ret.kind = "raise"
        THEN [ret |-> url.ret, printed |-> <<>>,
              events |-> <<MadeDirs>> \o reads.events \o url.events]
        ELSE [ret |-> Return("None"), printed |-> <<>>,
              events |-> <<MadeDirs>> \o reads.events \o url.events
                             \o <<Called("requests.Session.get")>>]

\* the mapping that gives the k-th key of ConnKeys a value of class
\* content[k], or no entry when content[k] is "absent"
RECURSIVE ConnDict(_, _)
ConnDict(content, k) ==
    IF k > Len(ConnKeys) THEN <<>>
    ELSE (IF content[k] = "absent" THEN <<>> ELSE << <<ConnKeys[k], content[k]>> >>)
             \o ConnDict(content, k + 1)

ConnDicts ==
    {ConnDict(content, 1) : content \in [1..Len(ConnKeys) -> ConnTypes \cup {"absent"}]}

ConfigDicts == {<<>>} \cup {<< <<"hive.execution.engine", t>> >> : t \in ConnTypes}

Wrappers ==
    {"get_oracle_connection", "get_hive_connection", "upload_hdfs_file", "download_hdfs_file"}

InitWrapper ==
    /\ fn \in Wrappers
    /\ args \in [info : ConnDicts, config : ConfigDicts]
    /\ fn # "get_hive_connection" => args.config = <<>>
    /\ pc = "call"
    /\ ret = NoResult
    /\ stdout = <<>>
    /\ df = NoDf
    /\ col_i = 0
    /\ fs = NoFs
    /\ events = <<>>

CallGetOracleConnection ==
    /\ pc = "call"
    /\ fn = "get_oracle_connection"
    /\ ret' = get_oracle_connection(args.info).ret
    /\ events' = events \o get_oracle_connection(args.info).events
    /\ stdout' = stdout \o get_oracle_connection(args.info).printed
    /\ pc' = "done"
    /\ UNCHANGED <<fs, fn, args, df, col_i>>

CallGetHiveConnection ==
    /\ pc = "call"
    /\ fn = "get_hive_connection"
    /\ ret' = get_hive_connection(args.info, args.config).ret
    /\ events' = events \o get_hive_connection(args.info, args.config).events
    /\ stdout' = stdout \o get_hive_connection(args.info, args.config).printed
    /\ pc' = "done"
    /\ UNCHANGED <<fs, fn, args, df, col_i>>

CallUploadHdfsFile ==
    /\ pc = "call"
    /\ fn = "upload_hdfs_file"
    /\ ret' = upload_hdfs_file(args.info).ret
    /\ events' = events \o upload_hdfs_file(args.info).events
    /\ stdout' = stdout \o upload_hdfs_file(args.info).printed
    /\ pc' = "done"
    /\ UNCHANGED <<fs, fn, args, df, col_i>>

CallDownloadHdfsFile ==
    /\ pc = "call"
    /\ fn = "download_hdfs_file"
    /\ ret' = download_hdfs_file(args.info).ret
    /\ events' = events \o download_hdfs_file(args.info).events
    /\ stdout' = stdout \o download_hdfs_file(args.info).printed
    /\ pc' = "done"
    /\ UNCHANGED <<fs, fn, args, df, col_i>>

NextWrapper ==
    \/ CallGetOracleConnection
    \/ CallGetHiveConnection
    \/ CallUploadHdfsFile
    \/ CallDownloadHdfsFile

SpecWrapper == InitWrapper /\ [][NextWrapper]_vars

\* C19: every I/O wrapper that takes a connection-parameter mapping runs the
\* type validator on that mapping before it reads any value of the mapping
\* and before any network or database call, and makes no such call when the
\* validation fails.
C19_ValidatesBeforeUse ==
    (pc = "done" /\ fn \in Wrappers) =>
        /\ \A i \in 1..Len(events) :
               events[i].op = "read" =>
                   \E j \in 1..(i - 1) :
                       events[j].op = "validate" /\ events[j].on = events[i].on
        /\ \A i \in 1..Len(events) :
               events[i].op = "call" =>
                   \E j \in 1..(i - 1) : events[j].op = "validate"
        /\ (\E j \in 1..Len(events) : events[j].op = "validate" /\ ~events[j].ok) =>
               (\A i \in 1..Len(events) : events[i].op # "call")

(***************************************************************************)
(* get_split_index with a split count that is not an integer.              *)
(***************************************************************************)

\* the call under way has a split count that is a float, a str or None
NonIntegerSplit == args.split_n.type \in {"float", "str", "NoneType"}

SplitDone ==
    /\ pc = "done"
    /\ fn \in {"basic.get_split_index", "list_process.get_split_index",
               "df_process.get_split_index"}

\* C20: get_split_index(data, split_n) fails with a type error and returns
\* no list whenever split_n is not an integer (a float, a string or None),
\* in each of the three modules that define it.
C20_NonIntegerIsTypeError ==
    (SplitDone /\ NonIntegerSplit) =>
        /\ ret.kind = "raise"
        /\ ret.exc = "TypeError"

C20_Witness ==
    /\ SplitDone
    /\ fn = "basic.get_split_index"
    /\ args.split_n.type = "float"
    /\ args.data.len = 4
    /\ Raised
    /\ ret.exc = "TypeError"

(***************************************************************************)
(* extract_directory and extract_file (io/file.py).                        *)
(***************************************************************************)
ListPaths == TreePaths \cup { <<"/", "t", "x">>, <<"/", "t", "s">> }

\* every file system over `paths` in which each entry lies in a directory
FileSystemsOver(paths) ==
    {fsys \in UNION {[D -> {DirEntry, FileEntry(0)}] : D \in SUBSET paths} :
        \A p \in DOMAIN fsys :
            DirName(p) = <<"/">>
                \/ (DirName(p) \in DOMAIN fsys /\ fsys[DirName(p)].kind = "dir")}

\* os.listdir(path): the listings it may yield, or the error it raises
listdir(fsys, path) ==
    IF FileOnWay(fsys, path) THEN {Raise("NotADirectoryError", path)}
    ELSE IF StatPath(fsys, path).kind = "absent" THEN {Raise("FileNotFoundError", path)}
    ELSE IF StatPath(fsys, path).kind = "file" THEN {Raise("NotADirectoryError", path)}
    ELSE {Return(listing) : listing \in OrdersOf(ListDirNames(fsys, path))}

\* os.path.isdir(path) / os.path.isfile(path)
isdir(fsys, path) == StatPath(fsys, path).kind = "dir"

isfile(fsys, path) == StatPath(fsys, path).kind = "file"

\* [file for file in os.listdir(root_dir) if os.path.isdir(root_dir + file)]
extract_directory(fsys, root_dir) ==
    LET IsDirectory(file) == isdir(fsys, root_dir \o file)
    IN  {IF listed.kind = "raise" THEN listed ELSE Return(SelectSeq(listed.val, IsDirectory)) :
            listed \in listdir(fsys, root_dir)}

\* [file for file in os.listdir(root_dir) if os.path.isfile(root_dir + file)]
extract_file(fsys, root_dir) ==
    LET IsFile(file) == isfile(fsys, root_dir \o file)
    IN  {IF listed.kind = "raise" THEN listed ELSE Return(SelectSeq(listed.val, IsFile)) :
            listed \in listdir(fsys, root_dir)}

ListRoots ==
    { <<"/", "t">>, <<"/", "t", "/">>, <<"/", "t", "/", "s">>, <<"/", "t", "/", "s", "/">> }

InitList ==
    /\ fn \in {"extract_directory", "extract_file"}
    /\ fs \in FileSystemsOver(ListPaths)
    /\ args \in [root_dir : ListRoots]
    /\ pc = "call"
    /\ ret = NoResult
    /\ stdout = <<>>
    /\ df = NoDf
    /\ col_i = 0
    /\ events = <<>>

CallExtractDirectory ==
    /\ pc = "call"
    /\ fn = "extract_directory"
    /\ ret' \in extract_directory(fs, args.root_dir)
    /\ pc' = "done"
    /\ UNCHANGED <<fs, events, fn, args, stdout, df, col_i>>

CallExtractFile ==
    /\ pc = "call"
    /\ fn = "extract_file"
    /\ ret' \in extract_file(fs, args.root_dir)
    /\ pc' = "done"
    /\ UNCHANGED <<fs, events, fn, args, stdout, df, col_i>>

NextList == CallExtractDirectory \/ CallExtractFile

SpecList == InitList /\ [][NextList]_vars

\* a finished call on a path that names a directory
ListCase ==
    /\ pc = "done"
    /\ fn \in {"extract_directory", "extract_file"}
    /\ StatPath(fs, args.root_dir).kind = "dir"

\* the names directly under dir whose entry has the kind `kind`
ChildrenOfKind(fsys, dir, kind) ==
    {n \in ListDirNames(fsys, dir) : fsys[RStripSep(dir) \o <<"/">> \o n].kind = kind}

NoRepeats(s) == \A j, k \in 1..Len(s) : s[j] = s[k] => j = k

\* C21: for every directory path dir, written with or without a trailing
\* path separator, extract_directory(dir) returns exactly the names of the
\* entries directly under dir that are directories and extract_file(dir)
\* exactly the names of those that are regular files; neither descends into
\* subdirectories and no name is returned by both.
C21_ListsEntriesOfKind ==
    ListCase =>
        /\ Returned
        /\ NoRepeats(ret.val)
        /\ fn = "extract_directory" =>
               Range(ret.val) = ChildrenOfKind(fs, args.root_dir, "dir")
        /\ fn = "extract_file" =>
               Range(ret.val) = ChildrenOfKind(fs, args.root_dir, "file")
        /\ \A d \in extract_directory(fs, args.root_dir) :
               \A f \in extract_file(fs, args.root_dir) :
                   Range(d.val) \cap Range(f.val) = {}

(***************************************************************************)
(* The index-range error of check_type_list_element.                       *)
(***************************************************************************)

\* the call ended with the index-range error of line 86
IndexRangeError == ListCheckDone /\ ret.kind = "raise" /\ ret.exc = "ValueError"

SoftAccepts ==
    check_type_dict_value(args.check_dict, args.check_type, args.dict_keys).ret
        = Return(TRUE)

\* the strict validator returns without raising on them
StrictAccepts ==
    check_dict_value_type(args.check_dict, args.check_type, args.dict_keys).kind = "return"

\* C23: the soft validator check_type_dict_value and the strict validator
\* check_dict_value_type accept the same inputs: for every mapping,
\* expected type and keys argument (omitted, an empty list, a list of keys,
\* or a single non-list key), the soft one returns True exactly when the
\* strict one returns without raising.
C23_ValidatorsAgree ==
    /\ (pc = "done" /\ fn = "check_type_dict_value") =>
           ((ret = Return(TRUE)) <=> StrictAccepts)
    /\ (pc = "done" /\ fn = "check_dict_value_type") =>
           ((ret.kind = "return") <=> SoftAccepts)

(***************************************************************************)
(* create_folder_if_not (os/file.py), run by two callers for the same      *)
(* path.  Each caller first evaluates os.path.exists(path) and then, if    *)
(* it found nothing, calls os.makedirs(path); the steps of the two callers *)
(* interleave freely.  Here pc and ret hold one entry per caller.          *)
(***************************************************************************)
Callers == {1, 2}

CreatePaths ==
    { <<"/", "t">>, <<"/", "t", "/">>, <<"/", "t", "/", "s">>,
      <<"/", "t", "/", "s", "/", "y">>, <<"/", "t", "/", "x", "/", "y">> }

\* os.path.exists(path)
exists(fsys, path) == StatPath(fsys, path).kind # "absent"

\* the directories above q, the root excluded
AncestorsOf(q) == {SubSeq(q, 1, k) : k \in {j \in 2..(Len(q) - 1) : q[j + 1] = "/"}}

\* os.makedirs(path): ret is how it ends, fs the file system it leaves
makedirs(fsys, path) ==
    LET q == IF Len(path) > 1 THEN RStripSep(path) ELSE path
        made == (AncestorsOf(q) \cup {q}) \ DOMAIN fsys
    IN  IF FileOnWay(fsys, path)
        THEN [ret |-> Raise("NotADirectoryError", path), fs |-> fsys]
        ELSE IF q \in DOMAIN fsys
        THEN [ret |-> Raise("FileExistsError", path), fs |-> fsys]
        ELSE [ret |-> Return("None"),
              fs |-> [p \in DOMAIN fsys \cup made |->
                         IF p \in DOMAIN fsys THEN fsys[p] ELSE DirEntry]]

InitCreate ==
    /\ fn = "create_folder_if_not"
    /\ fs \in TreeFileSystems
    /\ \E path \in CreatePaths : args = [path |-> path, fs |-> fs]
    /\ pc = [c \in Callers |-> "exists"]
    /\ ret = [c \in Callers |-> NoResult]
    /\ stdout = <<>>
    /\ df = NoDf
    /\ col_i = 0
    /\ events = <<>>

\* line 16: if not os.path.exists(path)
CheckExists(c) ==
    /\ fn = "create_folder_if_not"
    /\ pc[c] = "exists"
    /\ IF exists(fs, args.path)
       THEN /\ pc' = [pc EXCEPT ![c] = "done"]
            /\ ret' = [ret EXCEPT ![c] = Return("None")]
       ELSE /\ pc' = [pc EXCEPT ![c] = "makedirs"]
            /\ ret' = ret
    /\ UNCHANGED <<fs, events, fn, args, stdout, df, col_i>>

\* line 17: os.makedirs(path)
MakeDirs(c) ==
    /\ fn = "create_folder_if_not"
    /\ pc[c] = "makedirs"
    /\ ret' = [ret EXCEPT ![c] = makedirs(fs, args.path).ret]
    /\ fs' = makedirs(fs, args.path).fs
    /\ pc' = [pc EXCEPT ![c] = "done"]
    /\ UNCHANGED <<events, fn, args, stdout, df, col_i>>

NextCreate == \E c \in Callers : CheckExists(c) \/ MakeDirs(c)

SpecCreate == InitCreate /\ [][NextCreate]_vars

\* the path can exist: no regular file stands where it needs a directory
Creatable == ~FileOnWay(args.fs, args.path)

\* C24: create_folder_if_not(path) never fails because the path already
\* exists and always ends with the path existing: a call on an existing
\* path changes nothing, and when two callers run it for the same path
\* concurrently, under every interleaving of their existence checks and
\* creations, both calls return without error.
C24_BothCallersSucceed ==
    (fn = "create_folder_if_not" /\ Creatable) =>
        /\ \A c \in Callers : pc[c] = "done" => ret[c].kind = "return"
        /\ (\E c \in Callers : pc[c] = "done") => exists(fs, args.path)
        /\ exists(args.fs, args.path) => fs = args.fs

====
